---- MODULE Spec2Model ----
(***************************************************************************)
(* A model of the resume export pipeline of resumes-builder:               *)
(*   resume_export/parser.py                  ResumeParser                 *)
(*   resume_export/validators/ats_checker.py  ATSValidator                 *)
(*   resume_export/docx_builder.py            DocxBuilder                  *)
(*   resume_export/exporter.py                ResumeExporter               *)
(*                                                                         *)
(* Text is a sequence of one-character strings, so that split, strip,      *)
(* startswith, the substring tests and the regular expressions of the      *)
(* source are computed character by character.  A Python list is a         *)
(* sequence; a Python dict is a sequence of <<key, value>> entries in      *)
(* insertion order (assigning to an existing key keeps its position).      *)
(***************************************************************************)
EXTENDS Naturals, Sequences, FiniteSets, TLC

(***************************************************************************)
(* Characters and the str methods the source uses                          *)
(***************************************************************************)

NL == "\n"

Digits == {"0", "1", "2", "3", "4", "5", "6", "7", "8", "9"}

UpperCase ==
    {"A", "B", "C", "D", "E", "F", "G", "H", "I", "J", "K", "L", "M",
     "N", "O", "P", "Q", "R", "S", "T", "U", "V", "W", "X", "Y", "Z"}

LowerCase ==
    {"a", "b", "c", "d", "e", "f", "g", "h", "i", "j", "k", "l", "m",
     "n", "o", "p", "q", "r", "s", "t", "u", "v", "w", "x", "y", "z"}

\* what str.strip() removes and what \s matches
Whitespace == {" ", "\t", "\n", "\r"}

\* what \w matches
WordChars == UpperCase \cup LowerCase \cup Digits \cup {"_"}

LowerOf ==
    [c \in UpperCase |->
        CASE c = "A" -> "a" [] c = "B" -> "b" [] c = "C" -> "c" [] c = "D" -> "d"
          [] c = "E" -> "e" [] c = "F" -> "f" [] c = "G" -> "g" [] c = "H" -> "h"
          [] c = "I" -> "i" [] c = "J" -> "j" [] c = "K" -> "k" [] c = "L" -> "l"
          [] c = "M" -> "m" [] c = "N" -> "n" [] c = "O" -> "o" [] c = "P" -> "p"
          [] c = "Q" -> "q" [] c = "R" -> "r" [] c = "S" -> "s" [] c = "T" -> "t"
          [] c = "U" -> "u" [] c = "V" -> "v" [] c = "W" -> "w" [] c = "X" -> "x"
          [] c = "Y" -> "y" [] c = "Z" -> "z"]

\* str.lower()
lower(s) == [i \in 1..Len(s) |-> IF s[i] \in UpperCase THEN LowerOf[s[i]] ELSE s[i]]

\* s[n:] of Python, n >= 0
From(s, n) == SubSeq(s, n + 1, Len(s))

\* str.startswith / str.endswith
startswith(s, p) == Len(p) <= Len(s) /\ SubSeq(s, 1, Len(p)) = p

endswith(s, p) == Len(p) <= Len(s) /\ SubSeq(s, Len(s) - Len(p) + 1, Len(s)) = p

\* sub in s
contains(s, sub) ==
    \E i \in 1..(Len(s) + 1) :
        i + Len(sub) - 1 <= Len(s) /\ SubSeq(s, i, i + Len(sub) - 1) = sub

\* the positions of s that hold a character outside cs
Outside(s, cs) == {i \in 1..Len(s) : s[i] \notin cs}

Min(S) == CHOOSE m \in S : \A k \in S : m <= k

Max(S) == CHOOSE m \in S : \A k \in S : m >= k

\* str.strip(chars), str.lstrip(chars) with chars given as a set
strip_chars(s, cs) ==
    IF Outside(s, cs) = {} THEN <<>>
    ELSE SubSeq(s, Min(Outside(s, cs)), Max(Outside(s, cs)))

lstrip_chars(s, cs) ==
    IF Outside(s, cs) = {} THEN <<>>
    ELSE SubSeq(s, Min(Outside(s, cs)), Len(s))

\* str.strip()
strip(s) == strip_chars(s, Whitespace)

\* the first position >= i of s that holds a character of cs, Len(s)+1 if none
RECURSIVE FindChar(_, _, _)
FindChar(s, cs, i) ==
    IF i > Len(s) THEN Len(s) + 1
    ELSE IF s[i] \in cs THEN i
    ELSE FindChar(s, cs, i + 1)

\* str.split(c) for a one-character separator: never empty, keeps empty parts
RECURSIVE split(_, _)
split(s, c) ==
    LET k == FindChar(s, {c}, 1)
    IN  IF k > Len(s) THEN <<s>>
        ELSE <<SubSeq(s, 1, k - 1)>> \o split(SubSeq(s, k + 1, Len(s)), c)

\* sep.join(parts)
RECURSIVE join(_, _)
join(parts, sep) ==
    IF parts = <<>> THEN <<>>
    ELSE IF Len(parts) = 1 THEN parts[1]
    ELSE parts[1] \o sep \o join(Tail(parts), sep)

\* [f(x) for x in xs]; a filtering comprehension is SelectSeq
Map(xs, f(_)) == [i \in 1..Len(xs) |-> f(xs[i])]

StripAll(xs) == Map(xs, strip)

\* the first position >= i of s that holds a character outside cs, Len(s)+1 if none
RECURSIVE FindNot(_, _, _)
FindNot(s, cs, i) ==
    IF i > Len(s) THEN Len(s) + 1
    ELSE IF s[i] \notin cs THEN i
    ELSE FindNot(s, cs, i + 1)

(***************************************************************************)
(* Regular expressions.  A pattern made of one-character elements, each    *)
(* required or optional (x?), is matched with the backtracking order of    *)
(* re: an optional element is taken first and given up only if the rest    *)
(* then fails.  MatchSeq is the position after the match, 0 if none.       *)
(***************************************************************************)

Req(cs) == [cs |-> cs, opt |-> FALSE]

Opt(cs) == [cs |-> cs, opt |-> TRUE]

RECURSIVE MatchSeq(_, _, _, _)
MatchSeq(s, pat, j, i) ==
    IF j > Len(pat) THEN i
    ELSE LET take == IF i <= Len(s) /\ s[i] \in pat[j].cs
                     THEN MatchSeq(s, pat, j + 1, i + 1)
                     ELSE 0
         IN  IF pat[j].opt /\ take = 0 THEN MatchSeq(s, pat, j + 1, i) ELSE take

\* re.search of such a pattern: [start, end) of the leftmost match, <<0, 0>> if none
SearchSeq(s, pat) ==
    LET starts == {i \in 1..Len(s) : MatchSeq(s, pat, 1, i) # 0}
    IN  IF starts = {} THEN <<0, 0>>
        ELSE <<Min(starts), MatchSeq(s, pat, 1, Min(starts))>>

PhoneSep == {"-", "."} \cup Whitespace

\* \(?\d{3}\)?[-.\s]?\d{3}[-.\s]?\d{4}                         (parser.py:131)
PhonePattern ==
    <<Opt({"("}), Req(Digits), Req(Digits), Req(Digits), Opt({")"}), Opt(PhoneSep),
      Req(Digits), Req(Digits), Req(Digits), Opt(PhoneSep),
      Req(Digits), Req(Digits), Req(Digits), Req(Digits)>>

\* \d{3}[-.\s]?\d{3}[-.\s]?\d{4}                               (parser.py:153)
PhoneLikePattern ==
    <<Req(Digits), Req(Digits), Req(Digits), Opt(PhoneSep),
      Req(Digits), Req(Digits), Req(Digits), Opt(PhoneSep),
      Req(Digits), Req(Digits), Req(Digits), Req(Digits)>>

\* \d{4}                                                       (parser.py:302, 350)
YearPattern == <<Req(Digits), Req(Digits), Req(Digits), Req(Digits)>>

\* [Ll]inked[Ii]n:   and   [Gg]it[Hh]ub:                       (parser.py:136, 141)
LinkedInLabel ==
    <<Req({"L", "l"}), Req({"i"}), Req({"n"}), Req({"k"}), Req({"e"}), Req({"d"}),
      Req({"I", "i"}), Req({"n"}), Req({":"})>>

GitHubLabel ==
    <<Req({"G", "g"}), Req({"i"}), Req({"t"}), Req({"H", "h"}), Req({"u"}), Req({"b"}),
      Req({":"})>>

\* group(0) of re.search(pat, s), <<>> when there is no match
SearchText(s, pat) ==
    LET m == SearchSeq(s, pat)
    IN  IF m[1] = 0 THEN <<>> ELSE SubSeq(s, m[1], m[2] - 1)

EmailChars == WordChars \cup {".", "-"}

\* the end of a match of [\w\.-]+@[\w\.-]+\.\w+ that starts at i, 0 if none:
\* the first class cannot cross "@"; the second gives back down to its last "."
\* that a word character follows
EmailEnd(s, i) ==
    LET a == FindNot(s, EmailChars, i)
        b == FindNot(s, EmailChars, a + 1)
        dots == {p \in (a + 2)..(b - 2) : s[p] = "." /\ s[p + 1] \in WordChars}
    IN  IF a = i \/ a > Len(s) THEN 0
        ELSE IF s[a] # "@" \/ dots = {} THEN 0
        ELSE FindNot(s, WordChars, Max(dots) + 1)

\* re.search(r'[\w\.-]+@[\w\.-]+\.\w+', s).group(0)           (parser.py:126)
SearchEmail(s) ==
    LET starts == {i \in 1..Len(s) : EmailEnd(s, i) # 0}
    IN  IF starts = {} THEN <<>>
        ELSE SubSeq(s, Min(starts), EmailEnd(s, Min(starts)) - 1)

LinkChars == WordChars \cup {".", "-", "/"}

\* the group of  label\s*([\w\.\-/]+)  matched at i: <<>> if no match
LabelledAt(s, label, i) ==
    LET e == MatchSeq(s, label, 1, i)
        g == FindNot(s, Whitespace, e)
        h == FindNot(s, LinkChars, g)
    IN  IF e = 0 THEN <<>> ELSE SubSeq(s, g, h - 1)

\* re.search(label\s*([\w\.\-/]+), s).group(1)                (parser.py:136-143)
SearchLabelled(s, label) ==
    LET starts == {i \in 1..Len(s) : LabelledAt(s, label, i) # <<>>}
    IN  IF starts = {} THEN <<>> ELSE LabelledAt(s, label, Min(starts))

(***************************************************************************)
(* Python dicts as sequences of <<key, value>> entries                     *)
(***************************************************************************)

Keys(d) == [i \in 1..Len(d) |-> d[i][1]]

HasKey(d, k) == \E i \in 1..Len(d) : d[i][1] = k

Get(d, k) == d[CHOOSE i \in 1..Len(d) : d[i][1] = k][2]

\* d[k] = v
DictSet(d, k, v) ==
    IF HasKey(d, k)
    THEN [i \in 1..Len(d) |-> IF d[i][1] = k THEN <<k, v>> ELSE d[i]]
    ELSE Append(d, <<k, v>>)

(***************************************************************************)
(* ResumeParser                                                            *)
(***************************************************************************)

H1 == <<"#", " ">>

H2 == <<"#", "#", " ">>

H3 == <<"#", "#", "#", " ">>

Bold == <<"*", "*">>

DefaultName == <<"R", "e", "s", "u", "m", "e">>

DefaultCategory == <<"G", "e", "n", "e", "r", "a", "l">>

KwSummary == <<"s", "u", "m", "m", "a", "r", "y">>

KwSkill == <<"s", "k", "i", "l", "l">>

KwExperience == <<"e", "x", "p", "e", "r", "i", "e", "n", "c", "e">>

KwEducation == <<"e", "d", "u", "c", "a", "t", "i", "o", "n">>

KwCertification == <<"c", "e", "r", "t", "i", "f", "i", "c", "a", "t", "i", "o", "n">>

KwLinkedin == <<"l", "i", "n", "k", "e", "d", "i", "n">>

KwGithub == <<"g", "i", "t", "h", "u", "b">>

\* ResumeParser._extract_name
_extract_name(lines) ==
    LET hits == {i \in 1..Len(lines) : startswith(strip(lines[i]), H1)}
    IN  IF hits = {} THEN DefaultName
        ELSE strip(From(strip(lines[Min(hits)]), 2))

\* the loop of _extract_contact that collects contact_lines
RECURSIVE ContactLines(_, _, _)
ContactLines(lines, i, in_contact_section) ==
    IF i > Len(lines) THEN <<>>
    ELSE LET line == strip(lines[i])
         IN  IF startswith(line, H1) THEN ContactLines(lines, i + 1, TRUE)
             ELSE IF startswith(line, H2) THEN <<>>
             ELSE (IF in_contact_section /\ line # <<>> THEN <<line>> ELSE <<>>)
                      \o ContactLines(lines, i + 1, in_contact_section)

\* LocationLine without the test for a phone number
LocationLine_no_phone_test(line_clean) ==
    /\ line_clean # <<>>
    /\ ~contains(line_clean, <<"@">>)
    /\ ~contains(lower(line_clean), KwLinkedin)
    /\ ~contains(lower(line_clean), KwGithub)

\* the test of _extract_contact that a contact line may hold the location
LocationLine(line_clean) ==
    /\ line_clean # <<>>
    /\ ~contains(line_clean, <<"@">>)
    /\ ~contains(lower(line_clean), KwLinkedin)
    /\ ~contains(lower(line_clean), KwGithub)
    /\ SearchSeq(line_clean, PhoneLikePattern)[1] = 0

\* the loop of _extract_contact that picks the location
RECURSIVE PickLocation(_, _)
PickLocation(contact_lines, i) ==
    IF i > Len(contact_lines) THEN <<>>
    ELSE LET line_clean == strip(contact_lines[i])
             location == strip(split(line_clean, "|")[1])
         IN  IF LocationLine(line_clean) /\ location # <<>> THEN location
             ELSE PickLocation(contact_lines, i + 1)

\* ResumeParser._extract_contact
_extract_contact(lines) ==
    LET contact_lines == ContactLines(lines, 1, FALSE)
        contact_text == join(contact_lines, <<" ">>)
    IN  [location |-> PickLocation(contact_lines, 1),
         email    |-> SearchEmail(contact_text),
         phone    |-> SearchText(contact_text, PhonePattern),
         linkedin |-> SearchLabelled(contact_text, LinkedInLabel),
         github   |-> SearchLabelled(contact_text, GitHubLabel),
         website  |-> <<>>]

\* the loop of _split_into_sections; current_section is <<>> for None and for ""
RECURSIVE SplitLoop(_, _, _, _, _)
SplitLoop(lines, i, sections, current_section, section_content) ==
    LET saved == IF current_section # <<>>
                 THEN DictSet(sections, current_section, join(section_content, <<NL>>))
                 ELSE sections
    IN  IF i > Len(lines) THEN saved
        ELSE IF startswith(lines[i], H2)
             THEN SplitLoop(lines, i + 1, saved, strip(From(lines[i], 3)), <<>>)
        ELSE IF current_section # <<>>
             THEN SplitLoop(lines, i + 1, sections, current_section,
                            Append(section_content, lines[i]))
        ELSE SplitLoop(lines, i + 1, sections, current_section, section_content)

\* ResumeParser._split_into_sections
_split_into_sections(lines) == SplitLoop(lines, 1, <<>>, <<>>, <<>>)

NonBlank(line) == strip(line) # <<>>

\* ResumeParser._parse_summary
_parse_summary(content) ==
    join(StripAll(SelectSeq(split(content, NL), NonBlank)), <<" ">>)

\* re.match(r'\*\*([^*]+)\*\*:\s*(.+)', line): <<group 1, group 2>>, <<>> if no
\* match.  \s* is greedy and gives one character back when nothing is left for (.+)
BoldColonMatch(line) ==
    LET a  == FindChar(line, {"*"}, 3)
        ws == FindNot(line, Whitespace, a + 3)
    IN  IF ~startswith(line, Bold) \/ a = 3 \/ a + 2 > Len(line) THEN <<>>
        ELSE IF SubSeq(line, a, a + 2) # <<"*", "*", ":">> THEN <<>>
        ELSE IF ws <= Len(line)
             THEN <<SubSeq(line, 3, a - 1), SubSeq(line, ws, Len(line))>>
        ELSE IF ws > a + 3
             THEN <<SubSeq(line, 3, a - 1), SubSeq(line, Len(line), Len(line))>>
        ELSE <<>>

\* SkillItems with the segments left unstripped
SkillItems_unstripped(line) ==
    IF contains(line, <<",">>) THEN split(line, ",") ELSE <<line>>

\* the items a regular skill line adds to the current category (parser.py:227-231)
SkillItems(line) ==
    IF contains(line, <<",">>) THEN StripAll(split(line, ",")) ELSE <<line>>

\* the loop of _parse_skills
RECURSIVE SkillsLoop(_, _, _, _)
SkillsLoop(lines, i, skills, current_category) ==
    IF i > Len(lines) THEN skills
    ELSE LET line == strip(lines[i])
         IN  IF line = <<>> THEN SkillsLoop(lines, i + 1, skills, current_category)
             ELSE IF startswith(line, H3)
                  THEN LET c == strip(From(line, 4))
                       IN  SkillsLoop(lines, i + 1, DictSet(skills, c, <<>>), c)
             ELSE IF startswith(line, Bold) /\ endswith(line, Bold)
                  THEN LET c == strip(strip_chars(line, {"*"}))
                       IN  SkillsLoop(lines, i + 1, DictSet(skills, c, <<>>), c)
             ELSE IF contains(line, Bold) /\ contains(line, <<":">>)
                  THEN LET m == BoldColonMatch(line)
                       IN  IF m = <<>>
                           THEN SkillsLoop(lines, i + 1, skills, current_category)
                           ELSE SkillsLoop(lines, i + 1,
                                    DictSet(skills, strip(m[1]),
                                            StripAll(split(strip(m[2]), ","))),
                                    current_category)
             ELSE LET base == IF HasKey(skills, current_category) THEN skills
                              ELSE DictSet(skills, current_category, <<>>)
                  IN  SkillsLoop(lines, i + 1,
                          DictSet(base, current_category,
                                  Get(base, current_category) \o SkillItems(line)),
                          current_category)

\* ResumeParser._parse_skills
_parse_skills(content) == SkillsLoop(split(content, NL), 1, <<>>, DefaultCategory)

MonthPatterns ==
    {<<Req({"J", "j"}), Req({"a"}), Req({"n"})>>, <<Req({"F", "f"}), Req({"e"}), Req({"b"})>>,
     <<Req({"M", "m"}), Req({"a"}), Req({"r"})>>, <<Req({"A", "a"}), Req({"p"}), Req({"r"})>>,
     <<Req({"M", "m"}), Req({"a"}), Req({"y"})>>, <<Req({"J", "j"}), Req({"u"}), Req({"n"})>>,
     <<Req({"J", "j"}), Req({"u"}), Req({"l"})>>, <<Req({"A", "a"}), Req({"u"}), Req({"g"})>>,
     <<Req({"S", "s"}), Req({"e"}), Req({"p"})>>, <<Req({"O", "o"}), Req({"c"}), Req({"t"})>>,
     <<Req({"N", "n"}), Req({"o"}), Req({"v"})>>, <<Req({"D", "d"}), Req({"e"}), Req({"c"})>>}

\* re.search(r'\d{4}|[Jj]an|...|[Dd]ec', third_part) finds a match (parser.py:302)
LooksLikeDates(third_part) ==
    \/ SearchSeq(third_part, YearPattern)[1] # 0
    \/ \E m \in MonthPatterns : SearchSeq(third_part, m)[1] # 0

\* _parse_job_header with a fourth segment that gives the dates only when the
\* third gave none
_parse_job_header_third_kept(header_line) ==
    LET parts == StripAll(split(header_line, "|"))
        third_is_dates == Len(parts) >= 3 /\ LooksLikeDates(parts[3])
    IN  [title        |-> parts[1],
         company      |-> IF Len(parts) >= 2 THEN parts[2] ELSE <<>>,
         location     |-> IF Len(parts) >= 3 /\ ~third_is_dates THEN parts[3] ELSE <<>>,
         dates        |-> IF third_is_dates THEN parts[3]
                          ELSE IF Len(parts) >= 4 THEN parts[4] ELSE <<>>,
         description  |-> <<>>,
         achievements |-> <<>>]

\* ResumeParser._parse_job_header, with the achievements list _parse_experience adds
_parse_job_header(header_line) ==
    LET parts == StripAll(split(header_line, "|"))
        third_is_dates == Len(parts) >= 3 /\ LooksLikeDates(parts[3])
    IN  [title        |-> parts[1],
         company      |-> IF Len(parts) >= 2 THEN parts[2] ELSE <<>>,
         location     |-> IF Len(parts) >= 3 /\ ~third_is_dates THEN parts[3] ELSE <<>>,
         dates        |-> IF Len(parts) >= 4 THEN parts[4]
                          ELSE IF third_is_dates THEN parts[3] ELSE <<>>,
         description  |-> <<>>,
         achievements |-> <<>>]

\* the loop of _parse_experience with an italic line setting the dates of the
\* job whether or not it has dates
RECURSIVE ExperienceLoop_dates_overwritten(_, _, _, _)
ExperienceLoop_dates_overwritten(lines, i, experiences, current_job) ==
    IF i > Len(lines) THEN experiences \o current_job
    ELSE LET line_stripped == strip(lines[i])
             job == current_job[1]
         IN  IF startswith(line_stripped, H3)
             THEN ExperienceLoop_dates_overwritten(lines, i + 1, experiences \o current_job,
                                 <<_parse_job_header(From(line_stripped, 4))>>)
             ELSE IF startswith(line_stripped, <<"*">>) /\ endswith(line_stripped, <<"*">>)
             THEN IF current_job # <<>>
                  THEN ExperienceLoop_dates_overwritten(lines, i + 1, experiences,
                           <<[job EXCEPT !.dates = strip(strip_chars(line_stripped, {"*"}))]>>)
                  ELSE ExperienceLoop_dates_overwritten(lines, i + 1, experiences, current_job)
             ELSE IF /\ current_job # <<>>
                     /\ line_stripped # <<>>
                     /\ ~startswith(line_stripped, <<"-">>)
                     /\ ~startswith(line_stripped, <<"*">>)
                     /\ job.description = <<>>
             THEN ExperienceLoop_dates_overwritten(lines, i + 1, experiences,
                                 <<[job EXCEPT !.description = line_stripped]>>)
             ELSE IF startswith(line_stripped, <<"-", " ">>) /\ current_job # <<>>
             THEN ExperienceLoop_dates_overwritten(lines, i + 1, experiences,
                      <<[job EXCEPT !.achievements =
                             Append(@, strip(From(line_stripped, 2)))]>>)
             ELSE ExperienceLoop_dates_overwritten(lines, i + 1, experiences, current_job)

\* the loop of _parse_experience; current_job is <<>> for None, else <<job>>
RECURSIVE ExperienceLoop(_, _, _, _)
ExperienceLoop(lines, i, experiences, current_job) ==
    IF i > Len(lines) THEN experiences \o current_job
    ELSE LET line_stripped == strip(lines[i])
             job == current_job[1]
         IN  IF startswith(line_stripped, H3)
             THEN ExperienceLoop(lines, i + 1, experiences \o current_job,
                                 <<_parse_job_header(From(line_stripped, 4))>>)
             ELSE IF startswith(line_stripped, <<"*">>) /\ endswith(line_stripped, <<"*">>)
             THEN IF current_job # <<>> /\ job.dates = <<>>
                  THEN ExperienceLoop(lines, i + 1, experiences,
                           <<[job EXCEPT !.dates = strip(strip_chars(line_stripped, {"*"}))]>>)
                  ELSE ExperienceLoop(lines, i + 1, experiences, current_job)
             ELSE IF /\ current_job # <<>>
                     /\ line_stripped # <<>>
                     /\ ~startswith(line_stripped, <<"-">>)
                     /\ ~startswith(line_stripped, <<"*">>)
                     /\ job.description = <<>>
             THEN ExperienceLoop(lines, i + 1, experiences,
                                 <<[job EXCEPT !.description = line_stripped]>>)
             ELSE IF startswith(line_stripped, <<"-", " ">>) /\ current_job # <<>>
             THEN ExperienceLoop(lines, i + 1, experiences,
                      <<[job EXCEPT !.achievements =
                             Append(@, strip(From(line_stripped, 2)))]>>)
             ELSE ExperienceLoop(lines, i + 1, experiences, current_job)

\* _parse_experience without the final `if current_job: experiences.append(...)`
_parse_experience_last_pending(content) ==
    LET lines == split(content, NL)
        flushed == ExperienceLoop(lines, 1, <<>>, <<>>)
        headings == {i \in 1..Len(lines) : startswith(strip(lines[i]), H3)}
    IN  IF headings = {} THEN flushed ELSE SubSeq(flushed, 1, Len(flushed) - 1)

\* ResumeParser._parse_experience
_parse_experience(content) == ExperienceLoop(split(content, NL), 1, <<>>, <<>>)

\* re.match(r'\*\*([^*]+)\*\*(.+)?', line): <<group 1, group 2>> with <<>> for an
\* absent group 2, <<>> if no match
DegreeMatch(line) ==
    LET a == FindChar(line, {"*"}, 3)
    IN  IF ~startswith(line, Bold) \/ a = 3 \/ a + 1 > Len(line) THEN <<>>
        ELSE IF SubSeq(line, a, a + 1) # Bold THEN <<>>
        ELSE <<SubSeq(line, 3, a - 1), From(line, a + 1)>>

\* re.split(r'\s*[|\-]\s*', rest)
RECURSIVE SplitOnSeparators(_)
SplitOnSeparators(rest) ==
    LET p == FindChar(rest, {"|", "-"}, 1)
        before == {k \in 1..p : \A q \in k..(p - 1) : rest[q] \in Whitespace}
        after == FindNot(rest, Whitespace, p + 1)
    IN  IF p > Len(rest) THEN <<rest>>
        ELSE <<SubSeq(rest, 1, Min(before) - 1)>>
                 \o SplitOnSeparators(SubSeq(rest, after, Len(rest)))

\* the year of an education entry from the second part (parser.py:350-354)
YearOf(part) ==
    IF SearchSeq(part, YearPattern)[1] # 0 THEN SearchText(part, YearPattern)
    ELSE strip(part)

\* the entry a degree line starts (parser.py:331-354)
NewEducation(m) ==
    LET rest == strip(lstrip_chars(strip(m[2]), {"|", "-"}))
        parts == SplitOnSeparators(rest)
    IN  [degree  |-> strip(m[1]),
         school  |-> IF rest # <<>> THEN strip(parts[1]) ELSE <<>>,
         year    |-> IF rest # <<>> /\ Len(parts) >= 2 THEN YearOf(parts[2]) ELSE <<>>,
         details |-> <<>>]

\* the loop of _parse_education.  The list holds references: objs are the entry
\* objects created so far, education the references appended, current_edu the
\* reference held (0 for None)
RECURSIVE EducationLoop(_, _, _, _, _)
EducationLoop(lines, i, objs, education, current_edu) ==
    LET flushed == IF current_edu # 0 THEN Append(education, current_edu) ELSE education
    IN  IF i > Len(lines) THEN [k \in 1..Len(flushed) |-> objs[flushed[k]]]
        ELSE LET line == strip(lines[i])
             IN  IF line = <<>>
                 THEN EducationLoop(lines, i + 1, objs, education, current_edu)
                 ELSE IF startswith(line, Bold) /\ contains(From(line, 2), Bold)
                 THEN IF DegreeMatch(line) # <<>>
                      THEN EducationLoop(lines, i + 1,
                               Append(objs, NewEducation(DegreeMatch(line))),
                               flushed, Len(objs) + 1)
                      ELSE EducationLoop(lines, i + 1, objs, flushed, current_edu)
                 ELSE IF current_edu # 0
                 THEN EducationLoop(lines, i + 1,
                          [objs EXCEPT ![current_edu].details = Append(@, line)],
                          education, current_edu)
                 ELSE EducationLoop(lines, i + 1, objs, education, current_edu)

\* ResumeParser._parse_education
_parse_education(content) == EducationLoop(split(content, NL), 1, <<>>, <<>>, 0)

\* one certification line (parser.py:373-376)
CertificationItem(line) ==
    IF startswith(line, <<"-", " ">>) THEN From(line, 2) ELSE line

IsCertificationLine(line) == line # <<>> /\ ~startswith(line, <<"#">>)

\* ResumeParser._parse_certifications
_parse_certifications(content) ==
    Map(SelectSeq(StripAll(split(content, NL)), IsCertificationLine), CertificationItem)

\* parse_section testing the section name as written, not lowercased
parse_section_cased(data, section_name, section_content) ==
    IF contains(section_name, KwSummary)
    THEN [data EXCEPT !.summary = _parse_summary(section_content)]
    ELSE IF contains(section_name, KwSkill)
    THEN [data EXCEPT !.skills = _parse_skills(section_content)]
    ELSE IF contains(section_name, KwExperience)
    THEN [data EXCEPT !.experience = _parse_experience(section_content)]
    ELSE IF contains(section_name, KwEducation)
    THEN [data EXCEPT !.education = _parse_education(section_content)]
    ELSE IF contains(section_name, KwCertification)
    THEN [data EXCEPT !.certifications = _parse_certifications(section_content)]
    ELSE [data EXCEPT !.raw_sections = DictSet(@, section_name, section_content)]

\* parse_section testing for certifications first
parse_section_reordered(data, section_name, section_content) ==
    LET section_lower == lower(section_name)
    IN  IF contains(section_lower, KwCertification)
        THEN [data EXCEPT !.certifications = _parse_certifications(section_content)]
        ELSE IF contains(section_lower, KwSummary)
        THEN [data EXCEPT !.summary = _parse_summary(section_content)]
        ELSE IF contains(section_lower, KwSkill)
        THEN [data EXCEPT !.skills = _parse_skills(section_content)]
        ELSE IF contains(section_lower, KwExperience)
        THEN [data EXCEPT !.experience = _parse_experience(section_content)]
        ELSE IF contains(section_lower, KwEducation)
        THEN [data EXCEPT !.education = _parse_education(section_content)]
        ELSE [data EXCEPT !.raw_sections = DictSet(@, section_name, section_content)]

\* one iteration of the loop of parse over sections.items() (parser.py:62-82)
parse_section(data, section_name, section_content) ==
    LET section_lower == lower(section_name)
    IN  IF contains(section_lower, KwSummary)
        THEN [data EXCEPT !.summary = _parse_summary(section_content)]
        ELSE IF contains(section_lower, KwSkill)
        THEN [data EXCEPT !.skills = _parse_skills(section_content)]
        ELSE IF contains(section_lower, KwExperience)
        THEN [data EXCEPT !.experience = _parse_experience(section_content)]
        ELSE IF contains(section_lower, KwEducation)
        THEN [data EXCEPT !.education = _parse_education(section_content)]
        ELSE IF contains(section_lower, KwCertification)
        THEN [data EXCEPT !.certifications = _parse_certifications(section_content)]
        ELSE [data EXCEPT !.raw_sections = DictSet(@, section_name, section_content)]

\* data as parse has it when the loop over the sections starts (parser.py:42-57)
InitialData(lines) ==
    [name           |-> _extract_name(lines),
     contact        |-> _extract_contact(lines),
     summary        |-> <<>>,
     skills         |-> <<>>,
     experience     |-> <<>>,
     education      |-> <<>>,
     certifications |-> <<>>,
     raw_sections   |-> <<>>]

\* the loop of parse from section i on (parser.py:62-82)
RECURSIVE ParseLoop(_, _, _)
ParseLoop(data, sections, i) ==
    IF i > Len(sections) THEN data
    ELSE ParseLoop(parse_section(data, sections[i][1], sections[i][2]), sections, i + 1)

\* ResumeParser.parse as a function of the lines read (parser.py:35-84)
parse(lines) == ParseLoop(InitialData(lines), _split_into_sections(lines), 1)

\* _read_file raising for an empty file too
_read_file_empty_raises(exists, text) ==
    IF ~exists \/ text = <<>> THEN [exc |-> "FileNotFoundError", content |-> <<>>]
    ELSE [exc |-> "", content |-> text]

\* ResumeParser._read_file: the exception raised ("" for none) and the text read
_read_file(exists, text) ==
    IF ~exists THEN [exc |-> "FileNotFoundError", content |-> <<>>]
    ELSE [exc |-> "", content |-> text]

(***************************************************************************)
(* The source texts the parser is run on: lines of the resume convention,  *)
(* each written with its line end                                          *)
(***************************************************************************)

\* # Jane Doe
LineName ==
    <<"#", " ", "J", "a", "n", "e", " ", "D", "o", "e">>

\* NYC | jane@x.com | 555-123-4567
LineContactA ==
    <<"N", "Y", "C", " ", "|", " ", "j", "a", "n", "e", "@", "x", ".", "c", "o", "m", " ", "|", " ", "5", "5", "5", "-", "1", "2", "3", "-", "4", "5", "6", "7">>

\* ## Summary
HeadSummary ==
    <<"#", "#", " ", "S", "u", "m", "m", "a", "r", "y">>

\* ## Certifications & Summary
HeadCertSummary ==
    <<"#", "#", " ", "C", "e", "r", "t", "i", "f", "i", "c", "a", "t", "i", "o", "n", "s", " ", "&", " ", "S", "u", "m", "m", "a", "r", "y">>

\* ## TECHNICAL SKILLS
HeadTechSkills ==
    <<"#", "#", " ", "T", "E", "C", "H", "N", "I", "C", "A", "L", " ", "S", "K", "I", "L", "L", "S">>

\* ## Work Experience
HeadWorkExperience ==
    <<"#", "#", " ", "W", "o", "r", "k", " ", "E", "x", "p", "e", "r", "i", "e", "n", "c", "e">>

\* ## Education
HeadEducation ==
    <<"#", "#", " ", "E", "d", "u", "c", "a", "t", "i", "o", "n">>

\* ## Certifications
HeadCertifications ==
    <<"#", "#", " ", "C", "e", "r", "t", "i", "f", "i", "c", "a", "t", "i", "o", "n", "s">>

\* ## Projects
HeadProjects ==
    <<"#", "#", " ", "P", "r", "o", "j", "e", "c", "t", "s">>

\* **BS Computer Science** | MIT | 2020
LineDegreeA ==
    <<"*", "*", "B", "S", " ", "C", "o", "m", "p", "u", "t", "e", "r", " ", "S", "c", "i", "e", "n", "c", "e", "*", "*", " ", "|", " ", "M", "I", "T", " ", "|", " ", "2", "0", "2", "0">>

\* ### Engineer | Acme | Austin | 2019 - 2021
LineJob ==
    <<"#", "#", "#", " ", "E", "n", "g", "i", "n", "e", "e", "r", " ", "|", " ", "A", "c", "m", "e", " ", "|", " ", "A", "u", "s", "t", "i", "n", " ", "|", " ", "2", "0", "1", "9", " ", "-", " ", "2", "0", "2", "1">>

\* Led a team
LinePlain ==
    <<"L", "e", "d", " ", "a", " ", "t", "e", "a", "m">>

\* - Built APIs
LineBulletBuilt ==
    <<"-", " ", "B", "u", "i", "l", "t", " ", "A", "P", "I", "s">>

\* ## Skills
HeadSkills ==
    <<"#", "#", " ", "S", "k", "i", "l", "l", "s">>

\* ### Languages
LineLanguages ==
    <<"#", "#", "#", " ", "L", "a", "n", "g", "u", "a", "g", "e", "s">>

\* Python, Go
LinePythonGo ==
    <<"P", "y", "t", "h", "o", "n", ",", " ", "G", "o">>

\* ### Cloud
LineCloud ==
    <<"#", "#", "#", " ", "C", "l", "o", "u", "d">>

\* AWS
LineAWS ==
    <<"A", "W", "S">>

\* - SQL
LineBulletSQL ==
    <<"-", " ", "S", "Q", "L">>

\* **Cloud**: GCP, Azure
LineBoldColon ==
    <<"*", "*", "C", "l", "o", "u", "d", "*", "*", ":", " ", "G", "C", "P", ",", " ", "A", "z", "u", "r", "e">>

\* the text of a sequence of lines
RECURSIVE TextOf(_)
TextOf(ls) == IF ls = <<>> THEN <<>> ELSE Head(ls) \o <<NL>> \o TextOf(Tail(ls))

\* all sequences over S of length at most n
SeqUpTo(S, n) == UNION {[1..k -> S] : k \in 0..n}

RECURSIVE Flatten(_)
Flatten(xss) == IF xss = <<>> THEN <<>> ELSE Head(xss) \o Flatten(Tail(xss))

MaxSections == 2

MaxSkillLines == 4

Headers == {<<>>, <<LineName, LineContactA>>}

Headings ==
    {HeadSummary, HeadCertSummary, HeadTechSkills, HeadWorkExperience,
     HeadEducation, HeadCertifications, HeadProjects}

Bodies == {<<LineDegreeA>>, <<LineJob, LinePlain, LineBulletBuilt, LinePythonGo>>}

\* a heading with its body
SectionBlocks == {<<h>> \o b : h \in Headings, b \in Bodies}

\* resumes: an optional name and contact block, then up to MaxSections sections
ResumeTexts ==
    {TextOf(h \o Flatten(ss)) : h \in Headers, ss \in SeqUpTo(SectionBlocks, MaxSections)}

SkillLines ==
    {LineLanguages, LinePythonGo, LineCloud, LineAWS, LineBulletSQL, LineBoldColon}

\* resumes that are one skills section of up to MaxSkillLines lines
SkillsTexts == {TextOf(<<HeadSkills>> \o ls) : ls \in SeqUpTo(SkillLines, MaxSkillLines)}

(***************************************************************************)
(* ATSValidator.  A ValidationResult is modelled without its message, the  *)
(* text shown to the reader.  A document is what validate reads of it:     *)
(*   size        st_size of the file, in bytes                             *)
(*   paragraphs  doc.paragraphs: the text and, per run, run.font.name      *)
(*               ("" for None)                                             *)
(*   tables      len(doc.tables)                                           *)
(*   rels        doc.part.rels.values(): the target_ref and the kind of    *)
(*               relationship (validate reads only the target_ref)         *)
(***************************************************************************)

ATS_FRIENDLY_FONTS == {"Calibri", "Arial", "Times New Roman", "Georgia", "Helvetica"}

MAX_FILE_SIZE_MB == 1

\* st_size / (1024 * 1024) <= MAX_FILE_SIZE_MB  (ats_checker.py:120-122)
MaxFileSizeBytes == MAX_FILE_SIZE_MB * 1024 * 1024

MIN_PAGES == 1

MAX_PAGES == 2

ParagraphsPerPage == 30

MaxEmptyParagraphs == 10

LongLineLength == 150

MaxLongLines == 5

KwImage == <<"i", "m", "a", "g", "e">>

\* the standard sections _check_sections falls back to (ats_checker.py:207-212)
DefaultStandardSections ==
    <<<<"S", "u", "m", "m", "a", "r", "y">>,
      <<"P", "r", "o", "f", "e", "s", "s", "i", "o", "n", "a", "l", " ", "S", "u", "m", "m", "a", "r", "y">>,
      <<"C", "o", "r", "e", " ", "S", "k", "i", "l", "l", "s">>,
      <<"S", "k", "i", "l", "l", "s">>,
      <<"T", "e", "c", "h", "n", "i", "c", "a", "l", " ", "S", "k", "i", "l", "l", "s">>,
      <<"E", "x", "p", "e", "r", "i", "e", "n", "c", "e">>,
      <<"P", "r", "o", "f", "e", "s", "s", "i", "o", "n", "a", "l", " ", "E", "x", "p", "e", "r", "i", "e", "n", "c", "e">>,
      <<"W", "o", "r", "k", " ", "E", "x", "p", "e", "r", "i", "e", "n", "c", "e">>,
      <<"E", "d", "u", "c", "a", "t", "i", "o", "n">>>>

\* a ValidationResult whose severity is left to the default when the check passed
ValidationResult_passed_default(check_name, passed, severity) ==
    [check_name |-> check_name, passed |-> passed,
     severity |-> IF passed THEN "error" ELSE severity]

ValidationResult(check_name, passed, severity) ==
    [check_name |-> check_name, passed |-> passed, severity |-> severity]

\* how many elements of xs satisfy Test
Count(xs, Test(_)) == Len(SelectSeq(xs, Test))

\* _check_file_size failing a file of exactly the limit
_check_file_size_strict(size) ==
    IF size < MaxFileSizeBytes
    THEN ValidationResult("File Size", TRUE, "info")
    ELSE ValidationResult("File Size", FALSE, "critical")

\* ATSValidator._check_file_size
_check_file_size(size) ==
    IF size <= MaxFileSizeBytes
    THEN ValidationResult("File Size", TRUE, "info")
    ELSE ValidationResult("File Size", FALSE, "critical")

Range(xs) == {xs[i] : i \in 1..Len(xs)}

\* ATSValidator._check_fonts
_check_fonts(doc) ==
    LET font_names == UNION {Range(p.fonts) : p \in Range(doc.paragraphs)}
        non_ats_fonts == {f \in font_names : f # "" /\ f \notin ATS_FRIENDLY_FONTS}
    IN  IF non_ats_fonts = {}
        THEN ValidationResult("Fonts", TRUE, "info")
        ELSE ValidationResult("Fonts", FALSE, "warning")

\* _check_tables reporting a table as a warning
_check_tables_warning(doc) ==
    IF doc.tables = 0
    THEN ValidationResult("Tables", TRUE, "info")
    ELSE ValidationResult("Tables", FALSE, "warning")

\* ATSValidator._check_tables
_check_tables(doc) ==
    IF doc.tables = 0
    THEN ValidationResult("Tables", TRUE, "info")
    ELSE ValidationResult("Tables", FALSE, "critical")

IsImageRef(rel) == contains(lower(rel.target_ref), KwImage)

\* ATSValidator._check_images
_check_images(doc) ==
    IF Count(doc.rels, IsImageRef) = 0
    THEN ValidationResult("Images", TRUE, "info")
    ELSE ValidationResult("Images", FALSE, "critical")

\* self.styles.get("ats_rules", {}).get("standard_sections", [...]); styles is a
\* dict, so is styles["ats_rules"] when present
StandardSections(styles) ==
    IF HasKey(styles, "ats_rules") /\ HasKey(Get(styles, "ats_rules"), "standard_sections")
    THEN Get(Get(styles, "ats_rules"), "standard_sections")
    ELSE DefaultStandardSections

\* _check_sections looking for the section names as written, not lowercased
_check_sections_cased(doc, styles) ==
    LET texts == Map(doc.paragraphs, LAMBDA p : strip(p.text))
        paragraph_text == SelectSeq(texts, LAMBDA t : t # <<>>)
        Found(section) ==
            \E k \in 1..Len(paragraph_text) : contains(paragraph_text[k], section)
        found_sections == SelectSeq(StandardSections(styles), Found)
        has_experience ==
            \E k \in 1..Len(found_sections) : contains(lower(found_sections[k]), KwExperience)
        has_education ==
            \E k \in 1..Len(found_sections) : contains(lower(found_sections[k]), KwEducation)
    IN  IF has_experience /\ has_education
        THEN ValidationResult("Sections", TRUE, "info")
        ELSE ValidationResult("Sections", FALSE, "warning")

\* ATSValidator._check_sections
_check_sections(doc, styles) ==
    LET texts == Map(doc.paragraphs, LAMBDA p : strip(p.text))
        paragraph_text == SelectSeq(texts, LAMBDA t : t # <<>>)
        Found(section) ==
            \E k \in 1..Len(paragraph_text) :
                contains(lower(paragraph_text[k]), lower(section))
        found_sections == SelectSeq(StandardSections(styles), Found)
        has_experience ==
            \E k \in 1..Len(found_sections) : contains(lower(found_sections[k]), KwExperience)
        has_education ==
            \E k \in 1..Len(found_sections) : contains(lower(found_sections[k]), KwEducation)
    IN  IF has_experience /\ has_education
        THEN ValidationResult("Sections", TRUE, "info")
        ELSE ValidationResult("Sections", FALSE, "warning")

HasText(p) == strip(p.text) # <<>>

IsEmptyParagraph(p) == strip(p.text) = <<>>

IsLongParagraph(p) == Len(p.text) > LongLineLength

\* _check_page_length rounding the page estimate up
_check_page_length_rounded_up(doc) ==
    LET paragraph_count == Count(doc.paragraphs, HasText)
        estimated_pages ==
            (paragraph_count + ParagraphsPerPage - 1) \div ParagraphsPerPage
    IN  IF MIN_PAGES <= estimated_pages /\ estimated_pages <= MAX_PAGES
        THEN ValidationResult("Length", TRUE, "info")
        ELSE IF estimated_pages < MIN_PAGES
        THEN ValidationResult("Length", FALSE, "info")
        ELSE ValidationResult("Length", FALSE, "warning")

\* _check_page_length without the floor of one page: paragraph_count // 30
_check_page_length_no_floor(doc) ==
    LET paragraph_count == Count(doc.paragraphs, HasText)
        estimated_pages == paragraph_count \div ParagraphsPerPage
    IN  IF MIN_PAGES <= estimated_pages /\ estimated_pages <= MAX_PAGES
        THEN ValidationResult("Length", TRUE, "info")
        ELSE IF estimated_pages < MIN_PAGES
        THEN ValidationResult("Length", FALSE, "info")
        ELSE ValidationResult("Length", FALSE, "warning")

\* ATSValidator._check_page_length
_check_page_length(doc) ==
    LET paragraph_count == Count(doc.paragraphs, HasText)
        estimated_pages ==
            IF paragraph_count \div ParagraphsPerPage > 1
            THEN paragraph_count \div ParagraphsPerPage ELSE 1
    IN  IF MIN_PAGES <= estimated_pages /\ estimated_pages <= MAX_PAGES
        THEN ValidationResult("Length", TRUE, "info")
        ELSE IF estimated_pages < MIN_PAGES
        THEN ValidationResult("Length", FALSE, "info")
        ELSE ValidationResult("Length", FALSE, "warning")

\* _check_formatting reporting the long lines from the threshold on
_check_formatting_from_threshold(doc) ==
    LET spacing_issues == Count(doc.paragraphs, IsEmptyParagraph)
        long_lines == Count(doc.paragraphs, IsLongParagraph)
    IN  <<IF spacing_issues > MaxEmptyParagraphs
          THEN ValidationResult("Spacing", FALSE, "warning")
          ELSE ValidationResult("Spacing", TRUE, "info")>>
        \o (IF long_lines >= MaxLongLines
            THEN <<ValidationResult("Line Length", FALSE, "info")>>
            ELSE <<>>)

\* ATSValidator._check_formatting
_check_formatting(doc) ==
    LET spacing_issues == Count(doc.paragraphs, IsEmptyParagraph)
        long_lines == Count(doc.paragraphs, IsLongParagraph)
    IN  <<IF spacing_issues > MaxEmptyParagraphs
          THEN ValidationResult("Spacing", FALSE, "warning")
          ELSE ValidationResult("Spacing", TRUE, "info")>>
        \o (IF long_lines > MaxLongLines
            THEN <<ValidationResult("Line Length", FALSE, "info")>>
            ELSE <<>>)

IsCriticalFailure(r) == ~r.passed /\ r.severity = "critical"

\* is_valid demanding that every result passed
NoFailures(results) == Count(results, LAMBDA r : ~r.passed) = 0

\* is_valid of validate from its results (ats_checker.py:113-114)
NoCriticalFailures(results) == Count(results, IsCriticalFailure) = 0

\* validate reporting a file that is no document with the default severity
validate_default_severity(exists, opens, doc, styles) ==
    IF ~exists
    THEN [is_valid |-> FALSE,
          results |-> <<ValidationResult("File Existence", FALSE, "critical")>>]
    ELSE IF ~opens
    THEN [is_valid |-> FALSE,
          results |-> <<ValidationResult("File Format", FALSE, "error")>>]
    ELSE LET results ==
                 <<_check_file_size(doc.size), _check_fonts(doc), _check_tables(doc),
                   _check_images(doc), _check_sections(doc, styles),
                   _check_page_length(doc)>> \o _check_formatting(doc)
         IN  [is_valid |-> NoCriticalFailures(results), results |-> results]

\* ATSValidator.validate: exists is Path(docx_path).exists(), opens whether
\* Document(docx_path) returns rather than raises
validate(exists, opens, doc, styles) ==
    IF ~exists
    THEN [is_valid |-> FALSE,
          results |-> <<ValidationResult("File Existence", FALSE, "critical")>>]
    ELSE IF ~opens
    THEN [is_valid |-> FALSE,
          results |-> <<ValidationResult("File Format", FALSE, "critical")>>]
    ELSE LET results ==
                 <<_check_file_size(doc.size), _check_fonts(doc), _check_tables(doc),
                   _check_images(doc), _check_sections(doc, styles),
                   _check_page_length(doc)>> \o _check_formatting(doc)
         IN  [is_valid |-> NoCriticalFailures(results), results |-> results]

\* a line of the report: a rule, the title, the overall status, a blank line,
\* the header of a bucket, or a result as ValidationResult.__str__ gives it
\* (ats_checker.py:31-33), the message left out
ReportLine(kind, text, check_name) == [kind |-> kind, text |-> text, check_name |-> check_name]

\* the status glyph of ValidationResult.__str__
StatusGlyph(r) ==
    IF r.passed THEN "passed" ELSE IF r.severity = "critical" THEN "failed" ELSE "warning"

ResultLines(results) ==
    [i \in 1..Len(results) |-> ReportLine("result", StatusGlyph(results[i]), results[i].check_name)]

\* a bucket of failures: nothing if empty, else its header, its results, a blank line
FailureBucket(header, results) ==
    IF results = <<>> THEN <<>>
    ELSE <<ReportLine("header", header, "")>> \o ResultLines(results)
             \o <<ReportLine("blank", "", "")>>

\* generate_report listing the warnings before the critical issues
generate_report_warnings_first(results) ==
    LET critical == SelectSeq(results, LAMBDA r : ~r.passed /\ r.severity = "critical")
        warnings == SelectSeq(results, LAMBDA r : ~r.passed /\ r.severity = "warning")
        info == SelectSeq(results, LAMBDA r : ~r.passed /\ r.severity = "info")
        passed == SelectSeq(results, LAMBDA r : r.passed)
    IN  <<ReportLine("rule", "", ""), ReportLine("title", "", ""), ReportLine("rule", "", ""),
          ReportLine("status", IF critical = <<>> THEN "compliant" ELSE "not compliant", ""),
          ReportLine("blank", "", "")>>
        \o FailureBucket("warnings", warnings)
        \o FailureBucket("critical", critical)
        \o FailureBucket("suggestions", info)
        \o <<ReportLine("header", "passed", "")>> \o ResultLines(passed)
        \o <<ReportLine("rule", "", "")>>

\* ATSValidator.generate_report: the lines of the text it returns
generate_report(results) ==
    LET critical == SelectSeq(results, LAMBDA r : ~r.passed /\ r.severity = "critical")
        warnings == SelectSeq(results, LAMBDA r : ~r.passed /\ r.severity = "warning")
        info == SelectSeq(results, LAMBDA r : ~r.passed /\ r.severity = "info")
        passed == SelectSeq(results, LAMBDA r : r.passed)
    IN  <<ReportLine("rule", "", ""), ReportLine("title", "", ""), ReportLine("rule", "", ""),
          ReportLine("status", IF critical = <<>> THEN "compliant" ELSE "not compliant", ""),
          ReportLine("blank", "", "")>>
        \o FailureBucket("critical", critical)
        \o FailureBucket("warnings", warnings)
        \o FailureBucket("suggestions", info)
        \o <<ReportLine("header", "passed", "")>> \o ResultLines(passed)
        \o <<ReportLine("rule", "", "")>>

(***************************************************************************)
(* The artifacts the validator is run on                                   *)
(***************************************************************************)

ParaExperience == [text |-> <<"E", "X", "P", "E", "R", "I", "E", "N", "C", "E">>, fonts |-> <<"Calibri">>]

ParaEducation == [text |-> <<"E", "d", "u", "c", "a", "t", "i", "o", "n">>, fonts |-> <<"Calibri", "">>]

ParaPortfolio == [text |-> <<"P", "o", "r", "t", "f", "o", "l", "i", "o">>, fonts |-> <<"Comic Sans MS">>]

ParaBlank == [text |-> <<" ">>, fonts |-> <<>>]

RelStyles == [target_ref |-> <<"s", "t", "y", "l", "e", "s", ".", "x", "m", "l">>, kind |-> "styles"]

RelPicture == [target_ref |-> <<"m", "e", "d", "i", "a", "/", "i", "m", "a", "g", "e", "1", ".", "p", "n", "g">>, kind |-> "image"]

RelLink ==
    [target_ref |-> <<"h", "t", "t", "p", "s", ":", "/", "/", "e", "x", "a", "m", "p", "l", "e", ".", "c", "o", "m", "/", "I", "m", "a", "g", "e", "s">>,
     kind |-> "hyperlink"]

MaxParagraphs == 2

MaxTables == 1

Paragraphs == {ParaExperience, ParaEducation, ParaPortfolio, ParaBlank}

RelLists ==
    {<<RelStyles>>, <<RelStyles, RelPicture>>, <<RelStyles, RelLink>>,
     <<RelStyles, RelPicture, RelLink>>}

\* half the limit, the limit, one byte more
Sizes == {MaxFileSizeBytes \div 2, MaxFileSizeBytes, MaxFileSizeBytes + 1}

Documents ==
    [size : Sizes, paragraphs : SeqUpTo(Paragraphs, MaxParagraphs),
     tables : 0..MaxTables, rels : RelLists]

\* n copies of x
Repeat(x, n) == [i \in 1..n |-> x]

ParaPlain == [text |-> <<"L", "e", "d", " ", "a", " ", "t", "e", "a", "m">>, fonts |-> <<"Calibri">>]

\* a paragraph one character longer than LongLineLength
ParaLong == [text |-> Repeat("x", LongLineLength + 1), fonts |-> <<"Calibri">>]

\* a document with text in `filled` paragraphs, `long` of them long, and `blank`
\* empty paragraphs
BulkParagraphsOf(filled, blank, long) ==
    <<ParaExperience, ParaEducation>> \o Repeat(ParaPlain, filled - 2 - long)
        \o Repeat(ParaBlank, blank) \o Repeat(ParaLong, long)

\* documents at the thresholds of the length and formatting checks: a page or so,
\* just under three pages or three, ten empty paragraphs or eleven, five long
\* ones or six
BulkParagraphs ==
    {BulkParagraphsOf(filled, blank, long) :
         filled \in {ParagraphsPerPage, (MAX_PAGES + 1) * ParagraphsPerPage - 1,
                     (MAX_PAGES + 1) * ParagraphsPerPage},
         blank \in {MaxEmptyParagraphs, MaxEmptyParagraphs + 1},
         long \in {MaxLongLines, MaxLongLines + 1}}

BulkDocuments ==
    [size : {MaxFileSizeBytes \div 2}, paragraphs : BulkParagraphs,
     tables : 0..MaxTables, rels : {<<RelStyles>>, <<RelStyles, RelLink>>}]

\* what stands for the document of a file that is missing or does not open
NoDocument == [size |-> 0, paragraphs |-> <<>>, tables |-> 0, rels |-> <<>>]

\* styles.yaml absent, or present with its own standard sections
StylesChoices ==
    {<<>>,
     <<<<"ats_rules", <<<<"standard_sections",
           <<<<"E", "m", "p", "l", "o", "y", "m", "e", "n", "t">>,
             <<"E", "d", "u", "c", "a", "t", "i", "o", "n">>>>>>>>>>>>}

(***************************************************************************)
(* DocxBuilder.  The document is the sequence of its paragraphs; a         *)
(* paragraph holds its runs, each with the text and the font settings it   *)
(* was given, and the spacing it was given ("" and 0 stand for a setting   *)
(* left unset).  Its fields kind and section record which statement and    *)
(* which section of build added it; they are not data of the document.     *)
(* The style configuration is a function from the keys present to their    *)
(* values: d["k"] raises KeyError when k is not in DOMAIN d.               *)
(***************************************************************************)

\* str.upper()
upper(s) ==
    [i \in 1..Len(s) |->
        IF s[i] \in LowerCase THEN CHOOSE c \in UpperCase : LowerOf[c] = s[i] ELSE s[i]]

\* d.get(k, default)
GetOr(d, k, default) == IF k \in DOMAIN d THEN d[k] ELSE default

\* DocxBuilder._default_styles
_default_styles ==
    [fonts |->
         [body           |-> [name |-> "Calibri", size |-> 11, fallback |-> "Arial"],
          name           |-> [name |-> "Calibri", size |-> 16, bold |-> TRUE,
                              fallback |-> "Arial"],
          section_header |-> [name |-> "Calibri", size |-> 12, bold |-> TRUE,
                              fallback |-> "Arial"],
          job_title      |-> [name |-> "Calibri", size |-> 11, bold |-> TRUE,
                              fallback |-> "Arial"]],
     margins |-> [top |-> 1, bottom |-> 1, left |-> 1, right |-> 1],
     spacing |-> [line |-> 1, paragraph |-> 6, section |-> 12]]

\* DocxBuilder._load_styles: file is <<>> when templates/styles.yaml does not
\* exist, else <<the mapping yaml.safe_load returns>>
_load_styles(file) == IF file = <<>> THEN _default_styles ELSE file[1]

\* the margins _setup_document gives the sections of the document
_setup_document(styles) ==
    LET margins == GetOr(styles, "margins", <<>>)
    IN  [top    |-> GetOr(margins, "top", 1),
         bottom |-> GetOr(margins, "bottom", 1),
         left   |-> GetOr(margins, "left", 1),
         right  |-> GetOr(margins, "right", 1)]

\* self.styles["fonts"][key], and for the dates
\* self.styles["fonts"].get("dates", self.styles["fonts"]["body"]), whose default
\* is evaluated first: <<the font configuration>>, <<>> for a KeyError
FontConfig(styles, key) ==
    IF "fonts" \notin DOMAIN styles THEN <<>>
    ELSE IF key = "dates"
    THEN IF "body" \notin DOMAIN styles.fonts THEN <<>>
         ELSE <<GetOr(styles.fonts, "dates", styles.fonts.body)>>
    ELSE IF key \notin DOMAIN styles.fonts THEN <<>>
    ELSE <<styles.fonts[key]>>

\* a run as add_run leaves it
NewRun(text) == [text |-> text, font |-> "", size |-> 0, bold |-> FALSE, italic |-> FALSE]

\* a run to add: its text, the font configuration looked up for it, the size
\* used when the configuration gives none, and how bold is set: "config" for
\* font_config.get("bold", True), "yes" for True, "no" for not set
Run(text, font_key, default_size, bold, italic) ==
    [text |-> text, font_key |-> font_key, default_size |-> default_size,
     bold |-> bold, italic |-> italic]

\* the run with the settings the statements after add_run give it
FormattedRun(r, font_config) ==
    [text   |-> r.text,
     font   |-> GetOr(font_config, "name", "Calibri"),
     size   |-> GetOr(font_config, "size", r.default_size),
     bold   |-> IF r.bold = "config" THEN GetOr(font_config, "bold", TRUE)
                ELSE r.bold = "yes",
     italic |-> r.italic]

\* a paragraph to add: space names the spacing given after the runs: "fixed"
\* for the constant `points`, "header" for the .get of before_header and
\* after_header, else the key k of self.styles["spacing"][k]
Paragraph(kind, section, runs, space, points) ==
    [kind |-> kind, section |-> section, runs |-> runs, space |-> space,
     points |-> points]

\* the runs of a paragraph added and formatted in turn, up to the first KeyError
RECURSIVE AddRuns(_, _, _, _)
AddRuns(styles, runs, i, done) ==
    IF i > Len(runs) THEN [exc |-> "", runs |-> done]
    ELSE IF FontConfig(styles, runs[i].font_key) = <<>>
    THEN [exc |-> "KeyError", runs |-> Append(done, NewRun(runs[i].text))]
    ELSE AddRuns(styles, runs, i + 1,
                 Append(done, FormattedRun(runs[i], FontConfig(styles, runs[i].font_key)[1])))

\* document.add_paragraph(), its runs, then its spacing
AddParagraph(styles, p) ==
    LET added == AddRuns(styles, p.runs, 1, <<>>)
        para == [kind |-> p.kind, section |-> p.section, runs |-> added.runs,
                 space_before |-> 0, space_after |-> 0, border |-> FALSE]
    IN  IF added.exc # "" THEN [exc |-> added.exc, paragraph |-> para]
        ELSE IF p.space = "fixed"
        THEN [exc |-> "", paragraph |-> [para EXCEPT !.space_after = p.points]]
        ELSE IF "spacing" \notin DOMAIN styles
        THEN [exc |-> "KeyError", paragraph |-> para]
        ELSE IF p.space = "header"
        THEN [exc |-> "",
              paragraph |-> [para EXCEPT
                  !.space_before = GetOr(styles.spacing, "before_header", 6),
                  !.space_after = GetOr(styles.spacing, "after_header", 3),
                  !.border = TRUE]]
        ELSE IF p.space \notin DOMAIN styles.spacing
        THEN [exc |-> "KeyError", paragraph |-> para]
        ELSE [exc |-> "", paragraph |-> [para EXCEPT !.space_after = styles.spacing[p.space]]]

\* the paragraphs a method adds, in turn, up to the first KeyError
RECURSIVE AddParagraphs(_, _, _, _)
AddParagraphs(styles, paragraphs, i, done) ==
    IF i > Len(paragraphs) THEN [exc |-> "", blocks |-> done]
    ELSE LET added == AddParagraph(styles, paragraphs[i])
         IN  IF added.exc # "" THEN [exc |-> added.exc, blocks |-> Append(done, added.paragraph)]
             ELSE AddParagraphs(styles, paragraphs, i + 1, Append(done, added.paragraph))

\* the paragraph that only gives space after a section
SpacingParagraph(section) == Paragraph("spacing", section, <<>>, "section", 0)

\* the part of build a paragraph belongs to, and the title of its section
Section(part, title) == [part |-> part, title |-> title]

BodyRun(text) == Run(text, "body", 11, "no", FALSE)

BoldRun(text) == Run(text, "body", 11, "yes", FALSE)

\* the items of parts that are not empty
NonEmpty(parts) == SelectSeq(parts, LAMBDA x : x # <<>>)

\* DocxBuilder._add_header: the paragraphs it adds
_add_header(name, contact) ==
    LET line1_parts == NonEmpty(<<contact.location, contact.email, contact.phone>>)
        line2_parts ==
            NonEmpty(<<IF contact.linkedin # <<>>
                       THEN <<"L", "i", "n", "k", "e", "d", "I", "n", ":", " ">> \o contact.linkedin ELSE <<>>,
                       IF contact.github # <<>>
                       THEN <<"G", "i", "t", "H", "u", "b", ":", " ">> \o contact.github ELSE <<>>,
                       contact.website>>)
        contact_lines ==
            (IF line1_parts # <<>> THEN <<join(line1_parts, <<" ", " ">>)>> ELSE <<>>)
            \o (IF line2_parts # <<>> THEN <<join(line2_parts, <<" ", "|", " ">>)>> ELSE <<>>)
        section == Section("header", <<>>)
    IN  <<Paragraph("name", section, <<Run(upper(name), "name", 16, "config", FALSE)>>,
                    "fixed", 6)>>
        \o [k \in 1..Len(contact_lines) |->
               Paragraph("contact", section, <<BodyRun(contact_lines[k])>>, "fixed", 3)]
        \o <<SpacingParagraph(section)>>

\* DocxBuilder._add_section_header, with the border _add_paragraph_border gives
_add_section_header(section) ==
    Paragraph("section_header", section,
              <<Run(upper(section.title), "section_header", 12, "config", FALSE)>>,
              "header", 0)

\* DocxBuilder._add_section
_add_section(section, content) ==
    <<_add_section_header(section)>>
    \o (IF strip(content) # <<>>
        THEN <<Paragraph("text", section, <<BodyRun(strip(content))>>, "section", 0)>>
        ELSE <<>>)

\* the paragraphs f gives for each item of xs, in turn
ForEach(xs, f(_, _)) == Flatten([i \in 1..Len(xs) |-> f(xs[i], i)])

TitleSummary == <<"S", "u", "m", "m", "a", "r", "y">>

TitleSkills == <<"C", "o", "r", "e", " ", "S", "k", "i", "l", "l", "s">>

TitleExperience ==
    <<"P", "r", "o", "f", "e", "s", "s", "i", "o", "n", "a", "l", " ", "E", "x", "p", "e", "r", "i", "e", "n", "c", "e">>

TitleEducation == <<"E", "d", "u", "c", "a", "t", "i", "o", "n">>

TitleCertifications ==
    <<"C", "e", "r", "t", "i", "f", "i", "c", "a", "t", "i", "o", "n", "s">>

\* DocxBuilder._add_skills_section; skills is a dict of lists
_add_skills_section(skills) ==
    LET section == Section("skills", TitleSkills)
        Category(entry, i) ==
            IF entry[2] = <<>> THEN <<>>
            ELSE <<Paragraph("skills", section,
                             <<BoldRun(entry[1]),
                               BodyRun(<<NL>> \o join(entry[2], <<",", " ">>))>>,
                             "paragraph", 0)>>
    IN  <<_add_section_header(section)>> \o ForEach(skills, Category)
        \o <<SpacingParagraph(section)>>

\* DocxBuilder._add_experience_section
_add_experience_section(experiences) ==
    LET section == Section("experience", TitleExperience)
        Job(job, i) ==
            LET company_parts == NonEmpty(<<job.company, job.location>>)
            IN  <<Paragraph("job", section,
                            <<Run(job.title, "job_title", 11, "yes", FALSE)>>
                            \o (IF company_parts # <<>>
                                THEN <<BodyRun(<<" ", "|", " ">> \o join(company_parts, <<" ", "|", " ">>))>>
                                ELSE <<>>),
                            "fixed", 3)>>
                \o (IF job.dates # <<>>
                    THEN <<Paragraph("dates", section,
                                     <<Run(job.dates, "dates", 11, "no", TRUE)>>, "fixed", 6)>>
                    ELSE <<>>)
                \o (IF job.description # <<>>
                    THEN <<Paragraph("description", section, <<BodyRun(job.description)>>,
                                     "fixed", 6)>>
                    ELSE <<>>)
                \o [k \in 1..Len(job.achievements) |->
                       Paragraph("bullet", section, <<BodyRun(job.achievements[k])>>,
                                 "fixed", 3)]
                \o (IF i < Len(experiences)
                    THEN <<Paragraph("spacing", section, <<>>, "paragraph", 0)>>
                    ELSE <<>>)
    IN  <<_add_section_header(section)>> \o ForEach(experiences, Job)
        \o <<SpacingParagraph(section)>>

\* DocxBuilder._add_education_section
_add_education_section(education) ==
    LET section == Section("education", TitleEducation)
        Entry(edu, i) ==
            LET edu_parts ==
                    NonEmpty(<<edu.school,
                               IF edu.year # <<>> THEN <<"(">> \o edu.year \o <<")">>
                               ELSE <<>>>>)
                edu_text == IF Len(edu_parts) = 2 THEN join(edu_parts, <<" ", "-", " ">>)
                            ELSE edu_parts[1]
                details == SelectSeq(edu.details, LAMBDA detail : strip(detail) # <<>>)
            IN  <<Paragraph("education", section,
                            <<BoldRun(edu.degree)>>
                            \o (IF edu_parts # <<>>
                                THEN <<BodyRun(<<" ", "|", " ">> \o edu_text)>> ELSE <<>>),
                            "paragraph", 0)>>
                \o [k \in 1..Len(details) |->
                       Paragraph("detail", section, <<BodyRun(details[k])>>, "fixed", 3)]
    IN  <<_add_section_header(section)>> \o ForEach(education, Entry)
        \o <<SpacingParagraph(section)>>

\* DocxBuilder._add_certifications_section
_add_certifications_section(certifications) ==
    LET section == Section("certifications", TitleCertifications)
    IN  <<_add_section_header(section)>>
        \o [k \in 1..Len(certifications) |->
               Paragraph("certification", section, <<BodyRun(certifications[k])>>,
                         "fixed", 3)]
        \o <<SpacingParagraph(section)>>

\* the statements of build in turn (docx_builder.py:77-101); `step` is the part
\* of the document the statement adds, and for the other sections `other` is
\* the position of the loop in raw_sections.items()
BuildStep(resume_data, step, other) ==
    CASE step = "header" -> _add_header(resume_data.name, resume_data.contact)
      [] step = "summary" ->
             IF resume_data.summary # <<>>
             THEN _add_section(Section("summary", TitleSummary), resume_data.summary)
             ELSE <<>>
      [] step = "skills" ->
             IF resume_data.skills # <<>> THEN _add_skills_section(resume_data.skills)
             ELSE <<>>
      [] step = "experience" ->
             IF resume_data.experience # <<>>
             THEN _add_experience_section(resume_data.experience)
             ELSE <<>>
      [] step = "education" ->
             IF resume_data.education # <<>>
             THEN _add_education_section(resume_data.education)
             ELSE <<>>
      [] step = "certifications" ->
             IF resume_data.certifications # <<>>
             THEN _add_certifications_section(resume_data.certifications)
             ELSE <<>>
      [] step = "other" ->
             _add_section(Section("other", resume_data.raw_sections[other][1]),
                          resume_data.raw_sections[other][2])

\* build with the education statement moved before the summary statement
NextStep_education_first(resume_data, step, other) ==
    CASE step = "header" -> "education"
      [] step = "education" -> "summary"
      [] step = "summary" -> "skills"
      [] step = "skills" -> "experience"
      [] step = "experience" -> "certifications"
      [] step = "certifications" ->
             IF resume_data.raw_sections # <<>> THEN "other" ELSE "return"
      [] step = "other" ->
             IF other < Len(resume_data.raw_sections) THEN "other" ELSE "return"

\* the statement of build that follows
NextStep(resume_data, step, other) ==
    CASE step = "header" -> "summary"
      [] step = "summary" -> "skills"
      [] step = "skills" -> "experience"
      [] step = "experience" -> "education"
      [] step = "education" -> "certifications"
      [] step = "certifications" ->
             IF resume_data.raw_sections # <<>> THEN "other" ELSE "return"
      [] step = "other" ->
             IF other < Len(resume_data.raw_sections) THEN "other" ELSE "return"

\* build from statement `step` on: the paragraphs added to the document, up to
\* the first exception
RECURSIVE BuildBlocks(_, _, _, _, _)
BuildBlocks(styles, resume_data, step, other, done) ==
    IF step = "return" THEN [exc |-> "", blocks |-> done]
    ELSE LET added == AddParagraphs(styles, BuildStep(resume_data, step, other), 1, <<>>)
             next == NextStep(resume_data, step, other)
         IN  IF added.exc # "" THEN [exc |-> added.exc, blocks |-> done \o added.blocks]
             ELSE BuildBlocks(styles, resume_data, next,
                              IF next = "other" THEN other + 1 ELSE other,
                              done \o added.blocks)

\* DocxBuilder.build on a document that holds nothing
build(styles, resume_data) == BuildBlocks(styles, resume_data, "header", 0, <<>>)

(***************************************************************************)
(* State                                                                   *)
(***************************************************************************)

VARIABLES
    fsExists,     \* markdown_path.exists()
    fsText,       \* the content of the file at markdown_path
    pc,           \* "new", "raised", "ready", "parsing", "done"
    raised,       \* the exception __init__ raised, "" for none
    self_lines,   \* ResumeParser.lines
    sections,     \* sections of parse, a dict
    secIdx,       \* the position of the loop of parse in sections.items()
    data,         \* data of parse; what parse returns once pc = "done"
    docxExists,   \* Path(docx_path).exists()
    docxOpens,    \* Document(docx_path) returns
    docx,         \* the document at docx_path
    styles,       \* ATSValidator.styles
    report,       \* <<what validate returned for docx>>, <<>> before the call
    edit,         \* how docx was edited after a first call: "", "add_table", "strip"
    prior,        \* <<what validate returned before the edit>>
    report_lines, \* the lines generate_report returned for report, <<>> before the call
    stylesFile,   \* templates/styles.yaml: <<>> if absent, else <<the mapping in it>>
    bpc,          \* "idle", "ready", "building", "built", "raised"
    template,     \* the paragraphs of the template the builder was created with
    self_styles,  \* DocxBuilder.styles
    margins,      \* the page margins of self.document
    self_document,\* the paragraphs of DocxBuilder.document
    resume_data,  \* the argument of build
    step,         \* the statement of build to run next
    other,        \* the position of the loop of build in raw_sections.items()
    base,         \* how many paragraphs the document held when build was called
    bexc,         \* the exception build raised, "" for none
    returned,     \* what the calls of build returned so far, each as it was returned
    template_path,\* ResumeExporter.template_path: <<>> for None, else <<the file at the path>>
    validate_arg, \* the argument validate of export
    save_exc,     \* the exception builder.save raises at output_path, "" for none
    xpc,          \* "idle", "returned", or "raised" if export let an exception through
    export_results \* <<the dictionary export returned>>, <<>> before it returns

parserVars == <<fsExists, fsText, pc, raised, self_lines, sections, secIdx, data>>

validatorVars == <<docxExists, docxOpens, docx, styles, report, edit, prior, report_lines>>

builderVars ==
    <<stylesFile, bpc, template, self_styles, margins, self_document, resume_data,
      step, other, base, bexc, returned>>

exporterVars == <<template_path, validate_arg, save_exc, xpc, export_results>>

vars == <<parserVars, validatorVars, builderVars, exporterVars>>

ParserStart ==
    /\ pc = "new"
    /\ raised = ""
    /\ self_lines = <<>>
    /\ sections = <<>>
    /\ secIdx = 0
    /\ data = <<>>

\* no artifact is being validated
ValidatorIdle ==
    /\ docxExists = FALSE
    /\ docxOpens = FALSE
    /\ docx = NoDocument
    /\ styles = <<>>
    /\ report = <<>>
    /\ edit = ""
    /\ prior = <<>>
    /\ report_lines = <<>>

\* no document is being built
BuilderIdle ==
    /\ stylesFile = <<>>
    /\ bpc = "idle"
    /\ template = <<>>
    /\ self_styles = <<>>
    /\ margins = <<>>
    /\ self_document = <<>>
    /\ resume_data = <<>>
    /\ step = ""
    /\ other = 0
    /\ base = 0
    /\ bexc = ""
    /\ returned = <<>>

\* no exporter exists
ExporterIdle ==
    /\ template_path = <<>>
    /\ validate_arg = FALSE
    /\ save_exc = ""
    /\ xpc = "idle"
    /\ export_results = <<>>

\* no resume is being parsed
ParserIdle ==
    /\ fsExists = FALSE
    /\ fsText = <<>>
    /\ ParserStart

\* ResumeParser.__init__ (parser.py:15-33)
Construct ==
    /\ pc = "new"
    /\ LET r == _read_file(fsExists, fsText)
       IN  /\ raised' = r.exc
           /\ pc' = IF r.exc # "" THEN "raised" ELSE "ready"
           /\ self_lines' = IF r.exc # "" THEN <<>> ELSE split(r.content, NL)
    /\ UNCHANGED <<fsExists, fsText, sections, secIdx, data, validatorVars, builderVars,
                   exporterVars>>

\* parse up to the loop over the sections (parser.py:42-60)
ParseBegin ==
    /\ pc = "ready"
    /\ data' = InitialData(self_lines)
    /\ sections' = _split_into_sections(self_lines)
    /\ secIdx' = 1
    /\ pc' = "parsing"
    /\ UNCHANGED <<fsExists, fsText, raised, self_lines, validatorVars, builderVars,
                   exporterVars>>

\* one iteration of the loop (parser.py:62-82)
ParseSection ==
    /\ pc = "parsing"
    /\ secIdx <= Len(sections)
    /\ data' = parse_section(data, sections[secIdx][1], sections[secIdx][2])
    /\ secIdx' = secIdx + 1
    /\ UNCHANGED <<fsExists, fsText, pc, raised, self_lines, sections, validatorVars, builderVars,
                   exporterVars>>

\* return data (parser.py:84)
ParseReturn ==
    /\ pc = "parsing"
    /\ secIdx > Len(sections)
    /\ pc' = "done"
    /\ UNCHANGED <<fsExists, fsText, raised, self_lines, sections, secIdx, data,
                   validatorVars, builderVars,
                   exporterVars>>

ParserNext == Construct \/ ParseBegin \/ ParseSection \/ ParseReturn

\* resumes of up to MaxSections sections, and a path at which no file exists
ParserInit ==
    /\ \/ fsExists = TRUE /\ fsText \in ResumeTexts
       \/ fsExists = FALSE /\ fsText = <<>>
    /\ ParserStart
    /\ ValidatorIdle
    /\ BuilderIdle
    /\ ExporterIdle

ParserSpec == ParserInit /\ [][ParserNext]_vars

LineCity == <<"A", "u", "s", "t", "i", "n", ",", " ", "T", "X", " ", "|", " ", "U", "S", "A">>

LinePipeFirst == <<" ", "|", " ", "R", "e", "m", "o", "t", "e">>

LineLinkedIn == <<"L", "i", "n", "k", "e", "d", "I", "n", ":", " ", "i", "n", "/", "j", "a", "n", "e">>

LinePhone == <<"C", "e", "l", "l", " ", "5", "5", "5", ".", "1", "2", "3", ".", "4", "5", "6", "7">>

LineTagline == <<"B", "u", "i", "l", "d", "e", "r", " ", "o", "f", " ", "A", "P", "I", "s">>

MaxContactLines == 3

ContactPalette ==
    {LineContactA, LineCity, LinePipeFirst, LineLinkedIn, LinePhone, LineTagline, <<>>}

\* a name heading or none, up to MaxContactLines lines, then a section or none
ContactTexts ==
    {TextOf(h \o c \o t) :
         h \in {<<>>, <<LineName>>},
         c \in SeqUpTo(ContactPalette, MaxContactLines),
         t \in {<<>>, <<HeadEducation, LineCity>>}}

\* resumes whose contact block has up to MaxContactLines lines
ContactInit ==
    /\ fsExists = TRUE
    /\ fsText \in ContactTexts
    /\ ParserStart
    /\ ValidatorIdle
    /\ BuilderIdle
    /\ ExporterIdle

ContactSpec == ContactInit /\ [][ParserNext]_vars

\* skills sections of up to MaxSkillLines lines
SkillsInit ==
    /\ fsExists = TRUE
    /\ fsText \in SkillsTexts
    /\ ParserStart
    /\ ValidatorIdle
    /\ BuilderIdle
    /\ ExporterIdle

SkillsSpec == SkillsInit /\ [][ParserNext]_vars

\* ### Founder
LineJobTitle ==
    <<"#", "#", "#", " ", "F", "o", "u", "n", "d", "e", "r">>

\* *2015 - 2017*
LineItalic ==
    <<"*", "2", "0", "1", "5", " ", "-", " ", "2", "0", "1", "7", "*">>

\* *Jan 2020*
LineItalicJan ==
    <<"*", "J", "a", "n", " ", "2", "0", "2", "0", "*">>

MaxExperienceLines == 4

ExperienceLines ==
    {LineJob, LineJobTitle, LineItalic, LineItalicJan, LinePlain, LinePythonGo,
     LineBulletBuilt, LineBulletSQL}

\* resumes that are one experience section of up to MaxExperienceLines lines
ExperienceTexts ==
    {TextOf(<<HeadWorkExperience>> \o ls) : ls \in SeqUpTo(ExperienceLines, MaxExperienceLines)}

ExperienceInit ==
    /\ fsExists = TRUE
    /\ fsText \in ExperienceTexts
    /\ ParserStart
    /\ ValidatorIdle
    /\ BuilderIdle
    /\ ExporterIdle

ExperienceSpec == ExperienceInit /\ [][ParserNext]_vars

\* the segments a job header is made of
SegmentAcme == <<"A", "c", "m", "e">>

SegmentReno == <<"R", "e", "n", "o">>

SegmentYears == <<"2", "0", "1", "9", " ", "-", " ", "2", "0", "2", "1">>

SegmentMonths == <<"m", "a", "r", " ", "t", "o", " ", "d", "e", "c">>

SegmentMarseille == <<"M", "a", "r", "s", "e", "i", "l", "l", "e">>

HeaderSegmentChoices ==
    {SegmentAcme, SegmentReno, SegmentYears, SegmentMonths, SegmentMarseille, <<>>}

MaxSegments == 4

\* ### Engineer, followed by up to MaxSegments segments, each after " | "
JobHeaderLines ==
    {H3 \o join(<<<<"E", "n", "g", "i", "n", "e", "e", "r">>>> \o segs, <<" ", "|", " ">>) : segs \in SeqUpTo(HeaderSegmentChoices, MaxSegments)}

\* resumes that are one experience section of one job, its header alone or
\* with an italic line after it
JobHeaderTexts ==
    {TextOf(<<HeadWorkExperience, h>> \o rest) :
         h \in JobHeaderLines, rest \in {<<>>, <<LineItalic>>}}

JobHeaderInit ==
    /\ fsExists = TRUE
    /\ fsText \in JobHeaderTexts
    /\ ParserStart
    /\ ValidatorIdle
    /\ BuilderIdle
    /\ ExporterIdle

JobHeaderSpec == JobHeaderInit /\ [][ParserNext]_vars

\* **MS** - Stanford - 2022
LineDegreeMS ==
    <<"*", "*", "M", "S", "*", "*", " ", "-", " ", "S", "t", "a", "n", "f", "o", "r", "d", " ", "-", " ", "2", "0", "2", "2">>

\* ***MS Data Science*** | CMU | 2022
LineBoldItalic ==
    <<"*", "*", "*", "M", "S", " ", "D", "a", "t", "a", " ", "S", "c", "i", "e", "n", "c", "e", "*", "*", "*", " ", "|", " ", "C", "M", "U", " ", "|", " ", "2", "0", "2", "2">>

\* Minor in Math
LineMinor ==
    <<"M", "i", "n", "o", "r", " ", "i", "n", " ", "M", "a", "t", "h">>

MaxEducationLines == 4

EducationLines == {LineDegreeA, LineDegreeMS, LineBoldItalic, LineMinor, LinePlain}

\* resumes that are one education section of up to MaxEducationLines lines
EducationTexts ==
    {TextOf(<<HeadEducation>> \o ls) : ls \in SeqUpTo(EducationLines, MaxEducationLines)}

EducationInit ==
    /\ fsExists = TRUE
    /\ fsText \in EducationTexts
    /\ ParserStart
    /\ ValidatorIdle
    /\ BuilderIdle
    /\ ExporterIdle

EducationSpec == EducationInit /\ [][ParserNext]_vars

MaxCategorySections == 3

\* sections of which several classify to the summary or to the skills
CategoryBlocks ==
    {<<h, b>> : h \in {HeadSummary, HeadCertSummary, HeadSkills, HeadTechSkills, HeadProjects},
                b \in {LinePlain, LineBoldColon}}

\* resumes of up to MaxCategorySections sections
CategoryTexts ==
    {TextOf(Flatten(ss)) : ss \in SeqUpTo(CategoryBlocks, MaxCategorySections)}

CategoryInit ==
    /\ fsExists = TRUE
    /\ fsText \in CategoryTexts
    /\ ParserStart
    /\ ValidatorIdle
    /\ BuilderIdle
    /\ ExporterIdle

CategorySpec == CategoryInit /\ [][ParserNext]_vars

\* a call of ATSValidator.validate on the artifact (ats_checker.py:69-116)
Validate ==
    /\ report = <<>>
    /\ report' = <<validate(docxExists, docxOpens, docx, styles)>>
    /\ UNCHANGED <<parserVars, builderVars, exporterVars, docxExists, docxOpens, docx, styles, edit, prior,
                   report_lines>>

\* the artifact is edited after a call: one table is added to its body, and the
\* file does not shrink
AddTable ==
    /\ report # <<>> /\ edit = ""
    /\ docxExists /\ docxOpens
    /\ \E size \in {x \in Sizes : x >= docx.size} :
           docx' = [docx EXCEPT !.tables = @ + 1, !.size = size]
    /\ prior' = report
    /\ report' = <<>>
    /\ report_lines' = <<>>
    /\ edit' = "add_table"
    /\ UNCHANGED <<parserVars, builderVars, exporterVars, docxExists, docxOpens, styles>>

IsNoImage(rel) == rel.kind # "image"

\* the artifact is edited after a call: all its tables and images are removed,
\* and the file does not grow
RemoveTablesAndImages ==
    /\ report # <<>> /\ edit = ""
    /\ docxExists /\ docxOpens
    /\ \E size \in {x \in Sizes : x <= docx.size} :
           docx' = [docx EXCEPT !.tables = 0, !.rels = SelectSeq(@, IsNoImage),
                                !.size = size]
    /\ prior' = report
    /\ report' = <<>>
    /\ report_lines' = <<>>
    /\ edit' = "strip"
    /\ UNCHANGED <<parserVars, builderVars, exporterVars, docxExists, docxOpens, styles>>

\* the report of what validate returned is generated, as the command line does
\* after each validation (cli.py:185-188, 252-254)
GenerateReport ==
    /\ report # <<>>
    /\ report_lines = <<>>
    /\ report_lines' = generate_report(report[1].results)
    /\ UNCHANGED <<parserVars, builderVars, exporterVars, docxExists, docxOpens, docx, styles, report, edit,
                   prior>>

ValidatorNext == Validate \/ AddTable \/ RemoveTablesAndImages \/ GenerateReport

\* a missing file, a file that is no document, or a document
ValidatorInit ==
    /\ \/ docxExists = FALSE /\ docxOpens = FALSE /\ docx = NoDocument
       \/ docxExists = TRUE /\ docxOpens = FALSE /\ docx = NoDocument
       \/ docxExists = TRUE /\ docxOpens = TRUE /\ docx \in Documents \cup BulkDocuments
    /\ styles \in StylesChoices
    /\ report = <<>>
    /\ edit = ""
    /\ prior = <<>>
    /\ report_lines = <<>>
    /\ ParserIdle
    /\ BuilderIdle
    /\ ExporterIdle

ValidatorSpec == ValidatorInit /\ [][ValidatorNext]_vars

(***************************************************************************)
(* Building: the parsed resume is passed to DocxBuilder.build, as the      *)
(* exporters do, by a builder created for the call or by one that has      *)
(* built before.                                                           *)
(***************************************************************************)

\* what yaml.safe_load returns for a file with no content
None == [none |-> TRUE]

\* the mapping d without its key k
Without(d, k) == [x \in DOMAIN d \ {k} |-> d[x]]

\* a style configuration that gives every key, none with the built-in value
FullStyles ==
    [fonts |->
         [body           |-> [name |-> "Arial", size |-> 10],
          name           |-> [name |-> "Georgia", size |-> 18, bold |-> FALSE],
          section_header |-> [name |-> "Arial", size |-> 13, bold |-> FALSE],
          job_title      |-> [name |-> "Arial", size |-> 10, bold |-> TRUE],
          dates          |-> [name |-> "Garamond", size |-> 9]],
     margins |-> [top |-> 2, bottom |-> 2, left |-> 3, right |-> 3],
     spacing |-> [line |-> 1, paragraph |-> 4, section |-> 10, before_header |-> 8,
                  after_header |-> 2]]

\* FullStyles with one key left out, at the top, in fonts, margins or spacing,
\* or in one font; the mapping with no key at all
OmittingStyles ==
    {Without(FullStyles, k) : k \in DOMAIN FullStyles}
    \cup {[FullStyles EXCEPT !.fonts = Without(@, k)] : k \in DOMAIN FullStyles.fonts}
    \cup {[FullStyles EXCEPT !.margins = Without(@, k)] : k \in DOMAIN FullStyles.margins}
    \cup {[FullStyles EXCEPT !.spacing = Without(@, k)] : k \in DOMAIN FullStyles.spacing}
    \cup {[FullStyles EXCEPT !.fonts.body = Without(@, k)] : k \in DOMAIN FullStyles.fonts.body}
    \cup {[FullStyles EXCEPT !.fonts.name = Without(@, k)] : k \in DOMAIN FullStyles.fonts.name}
    \cup {<<>>}

\* the paragraph of a letterhead template
TemplateParagraph ==
    [kind |-> "template", section |-> Section("template", <<>>),
     runs |-> <<[text |-> <<"C", "o", "n", "f", "i", "d", "e", "n", "t", "i", "a", "l">>, font |-> "Calibri",
                 size |-> 9, bold |-> FALSE, italic |-> FALSE]>>,
     space_before |-> 0, space_after |-> 0, border |-> FALSE]

\* no template, or a template that holds a paragraph
Templates == {<<>>, <<TemplateParagraph>>}

\* how many times build is called
MaxBuilds == 2

\* DocxBuilder.__init__ (docx_builder.py:20-29), _setup_document failing on
\* self.styles.get when the styles file is empty
NewBuilder ==
    /\ pc = "done"
    /\ bpc \in {"idle", "built"}
    /\ Len(returned) < MaxBuilds
    /\ \E t \in Templates :
           /\ template' = t
           /\ self_document' = t
    /\ self_styles' = _load_styles(stylesFile)
    /\ IF _load_styles(stylesFile) = None
       THEN bpc' = "raised" /\ bexc' = "AttributeError" /\ margins' = <<>>
       ELSE bpc' = "ready" /\ bexc' = "" /\ margins' = _setup_document(_load_styles(stylesFile))
    /\ UNCHANGED <<parserVars, validatorVars, exporterVars, stylesFile, resume_data, step, other, base,
                   returned>>

\* build is called with what parse returned (docx_builder.py:66)
BuildCall ==
    /\ bpc \in {"ready", "built"}
    /\ Len(returned) < MaxBuilds
    /\ resume_data' = data
    /\ step' = "header"
    /\ other' = 0
    /\ base' = Len(self_document)
    /\ bpc' = "building"
    /\ UNCHANGED <<parserVars, validatorVars, exporterVars, stylesFile, template, self_styles, margins,
                   self_document, bexc, returned>>

\* one statement of build (docx_builder.py:77-101)
BuildStatement ==
    /\ bpc = "building"
    /\ step # "return"
    /\ LET added == AddParagraphs(self_styles, BuildStep(resume_data, step, other), 1, <<>>)
       IN  /\ self_document' = self_document \o added.blocks
           /\ IF added.exc # ""
              THEN bpc' = "raised" /\ bexc' = added.exc /\ UNCHANGED <<step, other>>
              ELSE /\ step' = NextStep(resume_data, step, other)
                   /\ other' = IF NextStep(resume_data, step, other) = "other"
                               THEN other + 1 ELSE other
                   /\ UNCHANGED <<bpc, bexc>>
    /\ UNCHANGED <<parserVars, validatorVars, exporterVars, stylesFile, template, self_styles, margins,
                   resume_data, base, returned>>

\* return self.document (docx_builder.py:103)
BuildReturn ==
    /\ bpc = "building"
    /\ step = "return"
    /\ bpc' = "built"
    /\ returned' = Append(returned, [template |-> template, document |-> self_document])
    /\ UNCHANGED <<parserVars, validatorVars, exporterVars, stylesFile, template, self_styles, margins,
                   self_document, resume_data, step, other, base, bexc>>

BuilderNext == ParserNext \/ NewBuilder \/ BuildCall \/ BuildStatement \/ BuildReturn

\* no builder exists
BuilderStart ==
    /\ bpc = "idle"
    /\ template = <<>>
    /\ self_styles = <<>>
    /\ margins = <<>>
    /\ self_document = <<>>
    /\ resume_data = <<>>
    /\ step = ""
    /\ other = 0
    /\ base = 0
    /\ bexc = ""
    /\ returned = <<>>

HeadAwards == <<"#", "#", " ", "A", "w", "a", "r", "d", "s">>

MaxBuilderSections == 2

\* sections with content and sections with none: a skills category without
\* items, a heading followed by nothing
BuilderBlocks ==
    {<<HeadSummary, LinePlain>>, <<HeadSkills, LineCloud>>,
     <<HeadSkills, LineLanguages, LinePythonGo, LineCloud>>,
     <<HeadWorkExperience, LineJob, LinePlain, LineBulletBuilt, LineJob>>,
     <<HeadWorkExperience>>, <<HeadEducation, LineDegreeA, LinePlain>>,
     <<HeadCertifications, LineBulletSQL>>, <<HeadProjects, LinePlain>>, <<HeadProjects>>,
     <<HeadAwards, LinePlain>>}

BuilderTexts ==
    {TextOf(<<LineName, LineContactA>> \o Flatten(ss)) :
         ss \in SeqUpTo(BuilderBlocks, MaxBuilderSections)}

\* resumes of up to MaxBuilderSections sections, in any order, built under the
\* built-in styles or under a complete styles file
BuilderInit ==
    /\ fsExists = TRUE
    /\ fsText \in BuilderTexts
    /\ ParserStart
    /\ ValidatorIdle
    /\ stylesFile \in {<<>>, <<FullStyles>>}
    /\ BuilderStart
    /\ ExporterIdle

BuilderSpec == BuilderInit /\ [][BuilderNext]_vars

\* a resume with every kind of section, and one with a name only
StyleTexts ==
    {TextOf(<<LineName, LineContactA, HeadSummary, LinePlain, HeadSkills, LineLanguages,
              LinePythonGo, HeadWorkExperience, LineJob, LinePlain, LineBulletBuilt, LineJob,
              HeadEducation, LineDegreeA, LinePlain, HeadCertifications, LineBulletSQL,
              HeadProjects, LinePlain>>),
     TextOf(<<LineName>>)}

\* the styles file is absent, complete, empty, or leaves keys out
StyleInit ==
    /\ fsExists = TRUE
    /\ fsText \in StyleTexts
    /\ ParserStart
    /\ ValidatorIdle
    /\ stylesFile \in {<<>>, <<FullStyles>>, <<None>>} \cup {<<s>> : s \in OmittingStyles}
    /\ BuilderStart
    /\ ExporterIdle

StyleSpec == StyleInit /\ [][BuilderNext]_vars

(***************************************************************************)
(* ResumeExporter.export (exporter.py:32-109): a parser and a builder are  *)
(* created for the call, the document is saved at output_path, and the     *)
(* validator the exporter was created with is run on the saved file.       *)
(***************************************************************************)

\* an entry of results["errors"] or results["warnings"]: the prefix export puts
\* before an exception, "" for the message of a ValidationResult, and the
\* exception or the check the message is of
Message(prefix, of) == [prefix |-> prefix, of |-> of]

\* results as export creates it (exporter.py:48-55), validation <<>> for None
InitialResults == [success |-> FALSE, errors |-> <<>>, warnings |-> <<>>, validation |-> <<>>]

\* what are classes of Exception among the exceptions the calls of export raise
ExceptionClasses ==
    {"FileNotFoundError", "AttributeError", "KeyError", "PackageNotFoundError",
     "PermissionError"}

\* the paragraph of the saved file: its text and the font name of each run
SavedParagraph(p) ==
    [text |-> Flatten([i \in 1..Len(p.runs) |-> p.runs[i].text]),
     fonts |-> [i \in 1..Len(p.runs) |-> p.runs[i].font]]

\* the file document.save writes: the tables and relationships are those of the
\* template, build adds paragraphs only
SavedDocument(size, start, paragraphs) ==
    [size |-> size,
     paragraphs |-> [i \in 1..Len(paragraphs) |-> SavedParagraph(paragraphs[i])],
     tables |-> start.tables, rels |-> start.rels]

\* what Document() holds
BlankTemplate == [opens |-> TRUE, paragraphs |-> <<>>, tables |-> 0, rels |-> <<RelStyles>>]

\* the template the builder starts from
TemplateOf(path) == IF path = <<>> THEN BlankTemplate ELSE path[1]

\* ATSValidator.styles when styles.yaml held nothing as the exporter was
\* created: yaml.safe_load returned None, which is no dict
NoneStyles == <<"None", "None">>

\* validation clearing success when a critical check failed
WithValidation_clears_success(results, v) ==
    [results EXCEPT
        !.success = v.is_valid,
        !.validation = <<v>>,
        !.errors = @ \o [i \in 1..Len(SelectSeq(v.results, IsCriticalFailure)) |->
                            Message("", SelectSeq(v.results, IsCriticalFailure)[i].check_name)]]

\* results after the statements that follow the call of validate
\* (exporter.py:78-89)
WithValidation(results, v) ==
    LET critical == SelectSeq(v.results, IsCriticalFailure)
        others == SelectSeq(v.results, LAMBDA vr : ~vr.passed /\ vr.severity # "critical")
    IN  [results EXCEPT
            !.validation = <<v>>,
            !.errors = @ \o [i \in 1..Len(critical) |-> Message("", critical[i].check_name)],
            !.warnings = @ \o [i \in 1..Len(others) |-> Message("", others[i].check_name)]]

\* the try block (exporter.py:57-95): the exception that leaves it, "" for
\* none, results as it stands then, and what was saved and validated
TryBlock(exists, text, path, styles_file, save_failure, size, validator_styles, validate_flag) ==
    LET read == _read_file(exists, text)
        parsed == parse(split(read.content, NL))
        start == TemplateOf(path)
        loaded == _load_styles(styles_file)
        built == BuildBlocks(loaded, parsed, "header", 0, start.paragraphs)
        saved == SavedDocument(size, start, built.blocks)
        v == validate(TRUE, TRUE, saved, validator_styles)
        Left(exc, results, file, validated) ==
            [exc |-> exc, results |-> results, saved |-> file, validated |-> validated]
    IN  IF read.exc # "" THEN Left(read.exc, InitialResults, <<>>, <<>>)
        ELSE IF ~start.opens THEN Left("PackageNotFoundError", InitialResults, <<>>, <<>>)
        ELSE IF loaded = None THEN Left("AttributeError", InitialResults, <<>>, <<>>)
        ELSE IF built.exc # "" THEN Left(built.exc, InitialResults, <<>>, <<>>)
        ELSE IF save_failure # "" THEN Left(save_failure, InitialResults, <<>>, <<>>)
        ELSE IF ~validate_flag
        THEN Left("", [InitialResults EXCEPT !.success = TRUE], <<saved>>, <<>>)
        ELSE IF validator_styles = NoneStyles
        THEN Left("AttributeError", [InitialResults EXCEPT !.success = TRUE], <<saved>>, <<>>)
        ELSE Left("", WithValidation([InitialResults EXCEPT !.success = TRUE], v),
                  <<saved>>, <<v>>)

\* the except clauses (exporter.py:97-105): what leaves export, and results
ExceptClauses(exc, results) ==
    IF exc = "" THEN [exc |-> "", results |-> results]
    ELSE IF exc = "FileNotFoundError"
    THEN [exc |-> "",
          results |-> [results EXCEPT !.errors = Append(@, Message("File not found", exc))]]
    ELSE IF exc \in ExceptionClasses
    THEN [exc |-> "",
          results |-> [results EXCEPT !.errors = Append(@, Message("Export failed", exc))]]
    ELSE [exc |-> exc, results |-> results]

\* templates: a path at which no document is, a letterhead, a letterhead with a
\* table, a template with a picture
ExportTemplates ==
    {[opens |-> FALSE, paragraphs |-> <<>>, tables |-> 0, rels |-> <<>>],
     [opens |-> TRUE, paragraphs |-> <<TemplateParagraph>>, tables |-> 0, rels |-> <<RelStyles>>],
     [opens |-> TRUE, paragraphs |-> <<TemplateParagraph>>, tables |-> 1, rels |-> <<RelStyles>>],
     [opens |-> TRUE, paragraphs |-> <<>>, tables |-> 0, rels |-> <<RelStyles, RelPicture>>]}

\* export (exporter.py:32-109); the output file is left at output_path once
\* save has returned
Export ==
    /\ xpc = "idle"
    /\ \E size \in Sizes :
           \E t \in {TryBlock(fsExists, fsText, template_path, stylesFile, save_exc, size,
                              styles, validate_arg)} :
               \E out \in {ExceptClauses(t.exc, t.results)} :
                   /\ xpc' = IF out.exc = "" THEN "returned" ELSE "raised"
                   /\ export_results' = IF out.exc = "" THEN <<out.results>> ELSE <<>>
                   /\ docxExists' = (t.saved # <<>>)
                   /\ docxOpens' = (t.saved # <<>>)
                   /\ docx' = IF t.saved # <<>> THEN t.saved[1] ELSE NoDocument
                   /\ report' = t.validated
    /\ UNCHANGED <<parserVars, builderVars, styles, edit, prior, report_lines, template_path,
                   validate_arg, save_exc>>

ExportNext == Export

\* a resume or no file at markdown_path; the styles file absent, complete, empty
\* or without a key; any template; the validator's styles as loaded when the
\* exporter was created, from a file that was absent, complete or empty
ExportInit ==
    /\ \/ fsExists = TRUE /\ fsText \in StyleTexts
       \/ fsExists = FALSE /\ fsText = <<>>
    /\ ParserStart
    /\ docxExists = FALSE
    /\ docxOpens = FALSE
    /\ docx = NoDocument
    /\ styles \in StylesChoices \cup {NoneStyles}
    /\ report = <<>>
    /\ edit = ""
    /\ prior = <<>>
    /\ report_lines = <<>>
    /\ stylesFile \in {<<>>, <<FullStyles>>, <<None>>, <<Without(FullStyles, "spacing")>>,
                       <<[FullStyles EXCEPT !.fonts = Without(@, "job_title")]>>}
    /\ BuilderStart
    /\ template_path \in {<<>>} \cup {<<t>> : t \in ExportTemplates}
    /\ validate_arg \in BOOLEAN
    /\ save_exc \in {"", "PermissionError"}
    /\ xpc = "idle"
    /\ export_results = <<>>

ExportSpec == ExportInit /\ [][ExportNext]_vars

(***************************************************************************)
(* Properties of the parser                                                *)
(***************************************************************************)

\* scenario A of the specification
ScenarioAText == TextOf(<<LineName, LineContactA, HeadEducation, LineDegreeA>>)

\* C1: parsing scenario A yields name "Jane Doe", email "jane@x.com", phone
\* "555-123-4567", location "NYC" and exactly one education entry with degree
\* "BS Computer Science", school "MIT" and year "2020".
C1_ScenarioA ==
    (pc = "done" /\ fsText = ScenarioAText) =>
        /\ data.name = <<"J", "a", "n", "e", " ", "D", "o", "e">>
        /\ data.contact.email = <<"j", "a", "n", "e", "@", "x", ".", "c", "o", "m">>
        /\ data.contact.phone =
               <<"5", "5", "5", "-", "1", "2", "3", "-", "4", "5", "6", "7">>
        /\ data.contact.location = <<"N", "Y", "C">>
        /\ Len(data.education) = 1
        /\ data.education[1].degree =
               <<"B", "S", " ", "C", "o", "m", "p", "u", "t", "e", "r", " ", "S", "c", "i", "e", "n", "c", "e">>
        /\ data.education[1].school = <<"M", "I", "T">>
        /\ data.education[1].year = <<"2", "0", "2", "0">>

\* a skill line with its leading bullet marker removed
WithoutBullet(line) ==
    IF startswith(line, <<"-", " ">>) THEN strip(From(line, 2)) ELSE line

\* the comma-separated segments of a line
Segments(line) == StripAll(split(line, ","))

\* The items each category is to hold by the specification: a third-level heading
\* or a line that is entirely a bold span names the current category, a
\* `**Category**: items` line carries the segments after its label for the
\* category it names, every other non-blank line carries its segments, bullet
\* marker removed, for the current category; nothing is ever taken out of a list.
RECURSIVE ExpectedSkills(_, _, _, _)
ExpectedSkills(lines, i, expected, category) ==
    IF i > Len(lines) THEN expected
    ELSE LET line == strip(lines[i])
             Add(c, items) ==
                 DictSet(expected, c, (IF HasKey(expected, c) THEN Get(expected, c)
                                       ELSE <<>>) \o items)
         IN  IF line = <<>> THEN ExpectedSkills(lines, i + 1, expected, category)
             ELSE IF startswith(line, H3)
             THEN ExpectedSkills(lines, i + 1, Add(strip(From(line, 4)), <<>>),
                                 strip(From(line, 4)))
             ELSE IF startswith(line, Bold) /\ endswith(line, Bold)
             THEN ExpectedSkills(lines, i + 1,
                                 Add(strip(strip_chars(line, {"*"})), <<>>),
                                 strip(strip_chars(line, {"*"})))
             ELSE IF BoldColonMatch(line) # <<>>
             THEN ExpectedSkills(lines, i + 1,
                      Add(strip(BoldColonMatch(line)[1]),
                          Segments(strip(BoldColonMatch(line)[2]))),
                      category)
             ELSE ExpectedSkills(lines, i + 1,
                                 Add(category, Segments(WithoutBullet(line))), category)

ItemsOf(skills, c) == IF HasKey(skills, c) THEN Get(skills, c) ELSE <<>>

\* C2: the items held in the category lists of a skills section are exactly the
\* comma-separated segments of its non-blank, non-category lines, each with its
\* leading bullet marker removed, in the order met within each category: none is
\* lost, none is duplicated and no list holds anything else.
C2_SkillItemsExact ==
    (pc = "done" /\ Len(sections) = 1) =>
        LET expected == ExpectedSkills(split(sections[1][2], NL), 1, <<>>, DefaultCategory)
        IN  \A c \in Range(Keys(expected)) \cup Range(Keys(data.skills)) :
                ItemsOf(data.skills, c) = ItemsOf(expected, c)

\* scenario C of the specification, as the content of a skills section
ScenarioCContent ==
    <<"#", "#", "#", " ", "L", "a", "n", "g", "u", "a", "g", "e", "s", "\n", "P", "y", "t", "h", "o", "n", ",", " ", "G", "o", "\n", "#", "#", "#", " ", "C", "l", "o", "u", "d", "\n", "A", "W", "S", "\n">>

\* C3: the skills section of scenario C parses to exactly Languages -> [Python, Go],
\* Cloud -> [AWS], in that key order and with no "General" category.
C3_ScenarioC ==
    (pc = "done" /\ Len(sections) = 1 /\ sections[1][2] = ScenarioCContent) =>
        data.skills =
            <<<<<<"L", "a", "n", "g", "u", "a", "g", "e", "s">>,
                <<<<"P", "y", "t", "h", "o", "n">>, <<"G", "o">>>>>>,
              <<<<"C", "l", "o", "u", "d">>, <<<<"A", "W", "S">>>>>>>>

\* scenario C has been parsed as a section named Skills
C3_Witness ==
    /\ pc = "done"
    /\ fsText = TextOf(<<HeadSkills, LineLanguages, LinePythonGo, LineCloud, LineAWS>>)
    /\ sections = <<<<<<"S", "k", "i", "l", "l", "s">>, ScenarioCContent>>>>
    /\ Len(data.skills) = 2

\* the keywords of the typed sections, in the order parse tests them
TypedKeywords == <<KwSummary, KwSkill, KwExperience, KwEducation, KwCertification>>

\* C4: after parse, raw_sections has no key whose lowercased form contains
\* "summary", "skill", "experience", "education" or "certification".
C4_RawSectionsUntyped ==
    pc \in {"parsing", "done"} =>
        \A k \in 1..Len(data.raw_sections) :
            \A w \in 1..Len(TypedKeywords) :
                ~contains(lower(data.raw_sections[k][1]), TypedKeywords[w])

\* parse returned with a section kept in raw_sections beside typed sections
C4_Witness ==
    /\ pc = "done"
    /\ Len(sections) = 2
    /\ Len(data.raw_sections) = 1
    /\ data.skills # <<>>

\* the handler a section name selects: the first keyword, in the fixed order, that
\* is a case-insensitive substring of it; 6, the other-sections store, if none is
HandlerOf(section_name) ==
    LET matching == {w \in 1..Len(TypedKeywords) :
                        contains(lower(section_name), TypedKeywords[w])}
    IN  IF matching = {} THEN 6 ELSE Min(matching)

\* data after handler h alone has handled a section
HandledBy(h, d, section_name, section_content) ==
    CASE h = 1 -> [d EXCEPT !.summary = _parse_summary(section_content)]
      [] h = 2 -> [d EXCEPT !.skills = _parse_skills(section_content)]
      [] h = 3 -> [d EXCEPT !.experience = _parse_experience(section_content)]
      [] h = 4 -> [d EXCEPT !.education = _parse_education(section_content)]
      [] h = 5 -> [d EXCEPT !.certifications = _parse_certifications(section_content)]
      [] h = 6 -> [d EXCEPT !.raw_sections = DictSet(@, section_name, section_content)]

\* C5: every section is handled by exactly one of the six handlers, the first of
\* summary, skills, experience, education, certifications whose keyword is a
\* case-insensitive substring of the section name, and the other-sections store
\* only when none matches; the step that handles a section changes nothing else
\* of data.
C5_FirstMatchWins ==
    [][(pc = "parsing" /\ secIdx <= Len(sections) /\ secIdx' = secIdx + 1) =>
           data' = HandledBy(HandlerOf(sections[secIdx][1]), data,
                             sections[secIdx][1], sections[secIdx][2])]_vars

\* a section named "Certifications & Summary" was parsed as the summary and filled
\* nothing else
C5_Witness ==
    /\ pc = "done"
    /\ Len(sections) = 1
    /\ sections[1][1] = <<"C", "e", "r", "t", "i", "f", "i", "c", "a", "t", "i", "o", "n", "s", " ", "&", " ", "S", "u", "m", "m", "a", "r", "y">>
    /\ data.summary # <<>>
    /\ data.certifications = <<>>
    /\ data.raw_sections = <<>>

DataKeys ==
    {"name", "contact", "summary", "skills", "experience", "education",
     "certifications", "raw_sections"}

ContactKeys == {"location", "email", "phone", "linkedin", "github", "website"}

\* no section of the text selects handler h
NoSectionFor(h) == \A k \in 1..Len(sections) : HandlerOf(sections[k][1]) # h

\* a name heading: a line that, stripped, starts with the top-level heading marker
HasNameLine == \E i \in 1..Len(self_lines) : startswith(strip(self_lines[i]), H1)

\* the fields for which the text has no section are empty
AbsentSectionsEmpty ==
    /\ NoSectionFor(1) => data.summary = <<>>
    /\ NoSectionFor(2) => data.skills = <<>>
    /\ NoSectionFor(3) => data.experience = <<>>
    /\ NoSectionFor(4) => data.education = <<>>
    /\ NoSectionFor(5) => data.certifications = <<>>
    /\ NoSectionFor(6) => data.raw_sections = <<>>
    /\ ~HasNameLine => \A f \in ContactKeys : data.contact[f] = <<>>

\* __init__ fails with FileNotFoundError exactly when the file does not exist, and
\* parse returns a document holding the eight fields
FailsOnlyIfMissing ==
    /\ (pc = "raised") <=> (pc # "new" /\ ~fsExists)
    /\ (pc = "raised") <=> (raised = "FileNotFoundError")
    /\ raised \in {"", "FileNotFoundError"}
    /\ pc = "done" => DOMAIN data = DataKeys /\ DOMAIN data.contact = ContactKeys

\* C6 as stated: creating the parser and calling parse fails with a not-found
\* error if and only if the source file does not exist, and for every existing
\* text parse returns a document holding the eight fields with absent data as
\* empty string or empty collection.
C6_AbsentDataEmpty ==
    /\ FailsOnlyIfMissing
    /\ pc = "done" => AbsentSectionsEmpty /\ (~HasNameLine => data.name = <<>>)

\* C6 as amended: the same, with the name "Resume" when the text has no name
\* heading; parse completes for every existing text: once the parser is created
\* its result is defined, holds the eight fields, and is what parse returns.
C6_ParseTotal ==
    /\ FailsOnlyIfMissing
    /\ pc = "ready" =>
           /\ DOMAIN parse(self_lines) = DataKeys
           /\ DOMAIN parse(self_lines).contact = ContactKeys
    /\ pc = "done" =>
           /\ data = parse(self_lines)
           /\ AbsentSectionsEmpty
           /\ ~HasNameLine => data.name = DefaultName

\* parse returned for an existing, empty text
C6_Witness ==
    /\ pc = "done"
    /\ fsExists
    /\ fsText = <<>>
    /\ data.name = DefaultName
    /\ data.experience = <<>>

(***************************************************************************)
(* Properties of the validator                                             *)
(***************************************************************************)

\* validate has returned for the artifact as it now is
Validated == report # <<>>

Readable == docxExists /\ docxOpens

\* the positions of the failed critical entries of a result list
FailedCritical(results) ==
    {k \in 1..Len(results) : ~results[k].passed /\ results[k].severity = "critical"}

\* the entries of a result list under a check name
Named(results, check_name) ==
    SelectSeq(results, LAMBDA r : r.check_name = check_name)

\* C7: validate returns is_valid = true if and only if its result list holds no
\* entry with passed = false and severity critical; failed entries of severity
\* warning or info never make is_valid false and are in the returned list: the
\* list holds the result of every check that was run.
C7_ValidIffNoFailedCritical ==
    Validated =>
        /\ report[1].is_valid <=> FailedCritical(report[1].results) = {}
        /\ Readable =>
               Range(report[1].results) =
                   {_check_file_size(docx.size), _check_fonts(docx), _check_tables(docx),
                    _check_images(docx), _check_sections(docx, styles),
                    _check_page_length(docx)} \cup Range(_check_formatting(docx))

\* a valid report that holds a failed warning and a failed info entry
C7_Witness ==
    /\ Validated
    /\ report[1].is_valid
    /\ \E k \in 1..Len(report[1].results) :
           ~report[1].results[k].passed /\ report[1].results[k].severity = "warning"
    /\ \E k \in 1..Len(report[1].results) :
           ~report[1].results[k].passed /\ report[1].results[k].severity = "info"

\* C8: for a readable artifact on which validate returned is_valid = true, the
\* same artifact with one table added yields is_valid = false; and for an
\* artifact whose only failed critical results are Tables and/or Images, the same
\* artifact with all tables and images removed yields is_valid = true.
C8_TableAndImageMonotonic ==
    (Validated /\ prior # <<>>) =>
        /\ (edit = "add_table" /\ prior[1].is_valid) => ~report[1].is_valid
        /\ (/\ edit = "strip"
            /\ \A k \in FailedCritical(prior[1].results) :
                   prior[1].results[k].check_name \in {"Tables", "Images"})
               => report[1].is_valid

\* scenario B of the specification: one table, 0.5 MB, only Calibri fonts, no image
ScenarioB ==
    /\ Readable
    /\ docx.tables = 1
    /\ docx.size = MaxFileSizeBytes \div 2
    /\ \A p \in Range(docx.paragraphs) : Range(p.fonts) \subseteq {"Calibri", ""}
    /\ \A rel \in Range(docx.rels) : rel.kind # "image"

CheckNames ==
    {"File Size", "Fonts", "Tables", "Images", "Sections", "Length", "Spacing",
     "Line Length"}

\* C10: when the artifact does not exist or cannot be opened as a document,
\* validate returns is_valid = false with a result list of exactly one entry,
\* failed with severity critical, and none of the file-size, fonts, tables,
\* images, sections, length or formatting checks is run.
C10_UnreadableShortCircuits ==
    (Validated /\ ~Readable) =>
        /\ ~report[1].is_valid
        /\ Len(report[1].results) = 1
        /\ ~report[1].results[1].passed
        /\ report[1].results[1].severity = "critical"
        /\ report[1].results[1].check_name \notin CheckNames
        /\ report[1].results[1].check_name =
               IF docxExists THEN "File Format" ELSE "File Existence"

\* validate returned for a file that exists and is no document
C10_Witness ==
    /\ Validated
    /\ docxExists
    /\ ~docxOpens
    /\ Len(report[1].results) = 1

\* the paragraphs of the artifact that satisfy Test
ParagraphsWhere(Test(_)) == {i \in 1..Len(docx.paragraphs) : Test(docx.paragraphs[i])}

\* the number of paragraphs whose text is not blank
NonEmptyParagraphs == Cardinality(ParagraphsWhere(LAMBDA p : strip(p.text) # <<>>))

\* C15: with n the number of non-empty paragraphs, the Length check estimates
\* the pages as max(1, n div 30) and returns a passed info result when the
\* estimate is 1 or 2, that is when n <= 89, and a failed warning result when the
\* estimate exceeds 2, that is when n >= 90.
C15_LengthEstimate ==
    (Validated /\ Readable) =>
        LET n == NonEmptyParagraphs
            estimate == Max({1, n \div 30})
        IN  /\ estimate \in {1, 2} <=> n <= 89
            /\ estimate > 2 <=> n >= 90
            /\ Named(report[1].results, "Length") =
                   <<IF estimate \in {1, 2}
                     THEN ValidationResult("Length", TRUE, "info")
                     ELSE ValidationResult("Length", FALSE, "warning")>>

\* an artifact of 89 non-empty paragraphs was validated and passed the Length check
C15_Witness ==
    /\ Validated
    /\ Readable
    /\ NonEmptyParagraphs = 89
    /\ Named(report[1].results, "Length") = <<ValidationResult("Length", TRUE, "info")>>

\* some paragraph text contains, whatever the case, a configured standard
\* section name that itself contains the keyword
SectionNamed(keyword) ==
    \E name \in Range(StandardSections(styles)) :
        /\ contains(lower(name), keyword)
        /\ \E p \in Range(docx.paragraphs) : contains(lower(p.text), lower(name))

\* C16: the Sections check returns a failed warning result if and only if no
\* paragraph text contains, case-insensitively, a configured standard section
\* name that itself contains "experience", or none contains a configured name
\* that itself contains "education"; otherwise it returns a passed info result.
C16_SectionsCheck ==
    (Validated /\ Readable) =>
        Named(report[1].results, "Sections") =
            <<IF ~SectionNamed(KwExperience) \/ ~SectionNamed(KwEducation)
              THEN ValidationResult("Sections", FALSE, "warning")
              ELSE ValidationResult("Sections", TRUE, "info")>>

\* the Sections check passed on an artifact whose experience heading is in
\* capitals, under the built-in section names
C16_Witness ==
    /\ Validated
    /\ Readable
    /\ styles = <<>>
    /\ ParaExperience \in Range(docx.paragraphs)
    /\ Len(docx.paragraphs) = 2
    /\ Named(report[1].results, "Sections") = <<ValidationResult("Sections", TRUE, "info")>>

\* C17: the Formatting check emits exactly one Spacing result, failed with
\* severity warning if and only if more than 10 paragraphs are empty, and a Line
\* Length result, failed with severity info, if and only if more than 5
\* paragraphs are longer than 150 characters; validate on a readable artifact
\* returns 7 results, or 8 when the Line Length result is present.
C17_FormattingResults ==
    (Validated /\ Readable) =>
        LET results == report[1].results
            empty == Cardinality(ParagraphsWhere(LAMBDA p : strip(p.text) = <<>>))
            long == Cardinality(ParagraphsWhere(LAMBDA p : Len(p.text) > 150))
        IN  /\ Named(results, "Spacing") =
                   <<IF empty > 10
                     THEN ValidationResult("Spacing", FALSE, "warning")
                     ELSE ValidationResult("Spacing", TRUE, "info")>>
            /\ Named(results, "Line Length") =
                   IF long > 5 THEN <<ValidationResult("Line Length", FALSE, "info")>>
                   ELSE <<>>
            /\ Len(results) = IF long > 5 THEN 8 ELSE 7

\* validate returned 8 results for an artifact of 6 long and 11 empty paragraphs
C17_Witness ==
    /\ Validated
    /\ Readable
    /\ Len(report[1].results) = 8
    /\ Cardinality(ParagraphsWhere(LAMBDA p : Len(p.text) > 150)) = 6
    /\ Named(report[1].results, "Spacing") =
           <<ValidationResult("Spacing", FALSE, "warning")>>

\* C18: the File Size check returns a failed critical result if and only if the
\* size of the artifact exceeds 1.0 MB, 1048576 bytes; an artifact of exactly
\* 1048576 bytes passes with severity info.
C18_FileSizeLimit ==
    (Validated /\ Readable) =>
        Named(report[1].results, "File Size") =
            <<IF docx.size > 1048576
              THEN ValidationResult("File Size", FALSE, "critical")
              ELSE ValidationResult("File Size", TRUE, "info")>>

\* an artifact of exactly 1048576 bytes passed the File Size check
C18_Witness ==
    /\ Validated
    /\ Readable
    /\ docx.size = 1048576
    /\ Named(report[1].results, "File Size") =
           <<ValidationResult("File Size", TRUE, "info")>>

\* the positions of the lines read that begin with the second-level heading
\* marker, in source order
HeadingLines ==
    SelectSeq([i \in 1..Len(self_lines) |-> i], LAMBDA i : startswith(self_lines[i], H2))

\* the section the k-th heading line opens: its name, and the lines up to the
\* next heading line or the end of the text
SectionOfHeading(k) ==
    LET first == HeadingLines[k] + 1
        last == IF k < Len(HeadingLines) THEN HeadingLines[k + 1] - 1 ELSE Len(self_lines)
    IN  <<strip(From(self_lines[HeadingLines[k]], 3)),
          join(SubSeq(self_lines, first, last), <<NL>>)>>

\* C19: the sections produced by section splitting correspond one-to-one and in
\* source order to the lines beginning with the second-level heading marker, each
\* holding exactly the lines between its heading and the next second-level
\* heading or the end of the text; no section's accumulated text is lost.
C19_SectionsOneToOne ==
    pc \in {"parsing", "done"} =>
        sections = [k \in 1..Len(HeadingLines) |-> SectionOfHeading(k)]

\* the contact lines: the non-blank lines, stripped, after the name heading and
\* before the first second-level heading
ContactBlock == ContactLines(self_lines, 1, FALSE)

\* a contact line free of "@", "linkedin", "github" and phone-like digit runs
FreeOfContactData(line) ==
    /\ ~contains(line, <<"@">>)
    /\ ~contains(lower(line), KwLinkedin)
    /\ ~contains(lower(line), KwGithub)
    /\ \A i \in 1..Len(line) : MatchSeq(line, PhoneLikePattern, 1, i) = 0

\* the portion of a line before its first "|"
BeforePipe(line) == strip(SubSeq(line, 1, FindChar(line, {"|"}, 1) - 1))

\* the location the first of the candidate contact lines gives, empty if none
LocationFrom(candidates) ==
    IF candidates = {} THEN <<>> ELSE BeforePipe(ContactBlock[Min(candidates)])

\* C20 as stated: contact.location is the portion before the first "|" of the
\* first contact line that contains no "@", no "linkedin", no "github" and no
\* phone-like digit run; later contact lines are never used once such a line
\* exists, and location is empty when no such line exists.
C20_LocationFirstFreeLine ==
    pc = "done" =>
        data.contact.location =
            LocationFrom({i \in 1..Len(ContactBlock) : FreeOfContactData(ContactBlock[i])})

\* C20 as amended: contact.location is the portion before the first "|" of the
\* first contact line that contains none of these and whose portion before the
\* first "|" is not blank; later such lines are never used, and location is empty
\* when no such line exists.
C20_LocationFirstUsableLine ==
    pc = "done" =>
        data.contact.location =
            LocationFrom({i \in 1..Len(ContactBlock) :
                             /\ FreeOfContactData(ContactBlock[i])
                             /\ BeforePipe(ContactBlock[i]) # <<>>})

\* the location was taken from the second free line, the first one starting
\* with "|", and a later free line was not used
C20_Witness ==
    /\ pc = "done"
    /\ ContactBlock = <<strip(LinePipeFirst), LineCity, LineTagline>>
    /\ data.contact.location = <<"A", "u", "s", "t", "i", "n", ",", " ", "T", "X">>

(***************************************************************************)
(* Properties of the builder                                               *)
(***************************************************************************)

\* the blocks of a document that render content: neither a section header nor
\* a paragraph that only gives space
IsContent(block) == block.kind \notin {"section_header", "spacing"}

\* block i of doc is a section header with a content block of its section
\* after it, before the next section header
HeaderHasContent(doc, i) ==
    \E j \in (i + 1)..Len(doc) :
        /\ IsContent(doc[j])
        /\ doc[j].section = doc[i].section
        /\ \A k \in (i + 1)..(j - 1) : doc[k].kind # "section_header"

\* C11: build emits no section header for a section that has nothing to render
\* (an empty summary, experience, education, certifications or other sections,
\* a skills mapping holding no items, an other-section with blank text): every
\* section header block of the output is followed by at least one content
\* block of its section.
C11_NoOrphanSectionHeader ==
    \A r \in 1..Len(returned) :
        \A i \in 1..Len(returned[r].document) :
            returned[r].document[i].kind = "section_header" =>
                HeaderHasContent(returned[r].document, i)

\* the blocks the current call of build has added to the document
Emitted == SubSeq(self_document, base + 1, Len(self_document))

\* the place of a part of the document in the fixed order
PartRank(part) ==
    CASE part = "header" -> 1
      [] part = "summary" -> 2
      [] part = "skills" -> 3
      [] part = "experience" -> 4
      [] part = "education" -> 5
      [] part = "certifications" -> 6
      [] part = "other" -> 7

\* the place of an other-section in resume_data["raw_sections"]
StoredPosition(title) ==
    CHOOSE k \in 1..Len(resume_data.raw_sections) : resume_data.raw_sections[k][1] = title

\* the parts of resume_data that build tests as non-empty, and the header
PartsToRender ==
    {"header"}
    \cup {part \in {"summary", "skills", "experience", "education", "certifications"} :
              resume_data[part] # <<>>}
    \cup (IF resume_data.raw_sections # <<>> THEN {"other"} ELSE {})

\* C12: whatever the order of the sections in the source text, build emits
\* blocks in the fixed order: header block, then summary, skills, experience,
\* education, certifications (each only if non-empty), then the other sections
\* in their stored order; no block of a later section ever precedes a block of
\* an earlier one.
C12_FixedOrder ==
    bpc \in {"building", "built"} =>
        /\ \A i, j \in 1..Len(Emitted) :
               i < j =>
                   /\ PartRank(Emitted[i].section.part) <= PartRank(Emitted[j].section.part)
                   /\ (Emitted[i].section.part = "other" /\ Emitted[j].section.part = "other") =>
                          StoredPosition(Emitted[i].section.title)
                              <= StoredPosition(Emitted[j].section.title)
        /\ {Emitted[i].section.part : i \in 1..Len(Emitted)} \subseteq PartsToRender
        /\ bpc = "built" =>
               /\ Emitted[1].section.part = "header"
               /\ {Emitted[i].section.part : i \in 1..Len(Emitted)} = PartsToRender

\* a resume whose education section comes before its summary has been built,
\* and the summary blocks come before the education blocks
C12_Witness ==
    /\ bpc = "built"
    /\ fsText = TextOf(<<LineName, LineContactA, HeadEducation, LineDegreeA, LinePlain,
                         HeadSummary, LinePlain>>)
    /\ \E i, j \in 1..Len(Emitted) :
           /\ i < j
           /\ Emitted[i].section.part = "summary"
           /\ Emitted[j].section.part = "education"

\* the mapping d with the entries of defaults for the keys it leaves out
WithDefaults(d, defaults) ==
    [k \in DOMAIN d \cup DOMAIN defaults |-> IF k \in DOMAIN d THEN d[k] ELSE defaults[k]]

\* a style configuration with the built-in value for every key of fonts,
\* margins and spacing it leaves out: those of _default_styles, the body font
\* for the dates, 6 and 3 points around a section header
Completed(config) ==
    LET fonts == WithDefaults(GetOr(config, "fonts", <<>>), _default_styles.fonts)
    IN  [fonts   |-> WithDefaults(fonts, [dates |-> fonts.body]),
         margins |-> WithDefaults(GetOr(config, "margins", <<>>), _default_styles.margins),
         spacing |-> WithDefaults(WithDefaults(GetOr(config, "spacing", <<>>),
                                               _default_styles.spacing),
                                  [before_header |-> 6, after_header |-> 3])]

\* a styles file was loaded and holds a mapping
StylesLoaded == stylesFile # <<>> /\ stylesFile[1] # None

\* C13: for any loaded style configuration that omits any subset of the keys
\* fonts.{body,name,section_header,job_title,dates}, margins.* and spacing.*,
\* building a document completes without error and uses the built-in default
\* for each omitted key.
C13_OmittedKeysFallBack ==
    StylesLoaded =>
        /\ bpc # "raised"
        /\ bpc \in {"ready", "building", "built"} =>
               margins = _setup_document(Completed(stylesFile[1]))
        /\ bpc = "built" => Emitted = build(Completed(stylesFile[1]), resume_data).blocks

\* C14: rendering is a pure function of the structured document and the style
\* configuration: rendering the same document with the same configuration
\* twice yields the same block sequence both times, the second result being
\* independent of the first call.
C14_RenderingIndependent ==
    (Len(returned) = 2 /\ returned[1].template = returned[2].template) =>
        returned[1].document = returned[2].document

(***************************************************************************)
(* Properties of the experience and education sections                     *)
(***************************************************************************)

\* the lines of the only section of the text, those after its heading
SectionLines == SubSeq(self_lines, 2, Len(self_lines))

\* the positions in lines of the third-level heading lines, in source order
JobHeadings(lines) ==
    SelectSeq([i \in 1..Len(lines) |-> i], LAMBDA i : startswith(strip(lines[i]), H3))

\* the positions of the "- " bullet lines of lines between positions from and to
BulletsBetween(lines, from, to) ==
    SelectSeq([i \in 1..Len(lines) |-> i],
              LAMBDA i : i > from /\ i < to /\ startswith(strip(lines[i]), <<"-", " ">>))

\* the text of a bullet line, its marker stripped
BulletText(line) == strip(From(strip(line), 2))

\* C21: the experience list holds exactly one entry per third-level heading
\* line, in source order, each entry carrying title, company, location, dates,
\* description and achievements; every "- " bullet line is attached, in order,
\* to the entry of the nearest preceding third-level heading and to no other,
\* and no entry is left pending at section end.
C21_OneEntryPerHeading ==
    pc = "done" =>
        LET lines == SectionLines
            heads == JobHeadings(lines)
            until(k) == IF k < Len(heads) THEN heads[k + 1] ELSE Len(lines) + 1
        IN  /\ Len(data.experience) = Len(heads)
            /\ \A k \in 1..Len(heads) :
                   LET job == data.experience[k]
                       bullets == BulletsBetween(lines, heads[k], until(k))
                   IN  /\ DOMAIN job = {"title", "company", "location", "dates",
                                        "description", "achievements"}
                       /\ job.title = strip(Head(split(From(strip(lines[heads[k]]), 4), "|")))
                       /\ job.achievements =
                              [b \in 1..Len(bullets) |-> BulletText(lines[bullets[b]])]

\* two jobs were parsed, each with a bullet of its own
C21_Witness ==
    /\ pc = "done"
    /\ SectionLines = <<LineJobTitle, LineBulletBuilt, LineJob, LineBulletSQL, <<>>>>
    /\ Len(data.experience) = 2
    /\ data.experience[1].achievements = <<<<"B", "u", "i", "l", "t", " ", "A", "P", "I", "s">>>>
    /\ data.experience[2].achievements = <<<<"S", "Q", "L">>>>

\* the experience list _parse_experience holds after the first n lines of the
\* section, the job in progress included
ExperienceAfter(n) == ExperienceLoop(SubSeq(SectionLines, 1, n), 1, <<>>, <<>>)

\* line is wrapped in italic markers
IsItalicLine(line) ==
    startswith(strip(line), <<"*">>) /\ endswith(strip(line), <<"*">>)

\* line is plain: not blank, no heading, no bullet, no italic or bold marker at
\* its start
IsPlainLine(line) ==
    /\ strip(line) # <<>>
    /\ ~startswith(strip(line), H3)
    /\ ~startswith(strip(line), <<"-">>)
    /\ ~startswith(strip(line), <<"*">>)

\* C24: within one job entry, dates and description are each set at most once
\* after the header: an italic-wrapped line sets dates only while dates is
\* still empty, the first plain non-bullet, non-italic line sets description
\* only while description is still empty, and no later line of the same job
\* changes either field.
C24_SetAtMostOnce ==
    pc = "done" =>
        \A n \in 1..Len(SectionLines) :
            LET before == ExperienceAfter(n - 1)
                after == ExperienceAfter(n)
                line == SectionLines[n]
            IN  \A k \in 1..Len(before) :
                    /\ k <= Len(after)
                    /\ before[k].dates # <<>> => after[k].dates = before[k].dates
                    /\ before[k].description # <<>> =>
                           after[k].description = before[k].description
                    /\ after[k].dates # before[k].dates =>
                           /\ k = Len(before)
                           /\ IsItalicLine(line)
                           /\ after[k].dates = strip(strip_chars(strip(line), {"*"}))
                    /\ after[k].description # before[k].description =>
                           /\ k = Len(before)
                           /\ IsPlainLine(line)
                           /\ after[k].description = strip(line)
                    /\ (k = Len(before) /\ IsPlainLine(line) /\ before[k].description = <<>>) =>
                           after[k].description = strip(line)
                    /\ (k = Len(before) /\ IsItalicLine(line) /\ before[k].dates = <<>>) =>
                           after[k].dates = strip(strip_chars(strip(line), {"*"}))
                    /\ n = Len(SectionLines) => after[k] = data.experience[k]

\* a job whose header gave no dates took them from the first italic line and
\* its description from the first plain line; the second of each changed nothing
C24_Witness ==
    /\ pc = "done"
    /\ SectionLines = <<LineJobTitle, LineItalic, LinePlain, LineItalicJan, <<>>>>
    /\ Len(data.experience) = 1
    /\ data.experience[1].dates = <<"2", "0", "1", "5", " ", "-", " ", "2", "0", "1", "7">>
    /\ data.experience[1].description = LinePlain

\* the month abbreviations, capitalised or not
MonthAbbreviations ==
    {<<"J", "a", "n">>, <<"j", "a", "n">>,
     <<"F", "e", "b">>, <<"f", "e", "b">>,
     <<"M", "a", "r">>, <<"m", "a", "r">>,
     <<"A", "p", "r">>, <<"a", "p", "r">>,
     <<"M", "a", "y">>, <<"m", "a", "y">>,
     <<"J", "u", "n">>, <<"j", "u", "n">>,
     <<"J", "u", "l">>, <<"j", "u", "l">>,
     <<"A", "u", "g">>, <<"a", "u", "g">>,
     <<"S", "e", "p">>, <<"s", "e", "p">>,
     <<"O", "c", "t">>, <<"o", "c", "t">>,
     <<"N", "o", "v">>, <<"n", "o", "v">>,
     <<"D", "e", "c">>, <<"d", "e", "c">>}

\* segment contains a 4-digit year or a month name or abbreviation
DateLike(segment) ==
    \/ \E i \in 1..(Len(segment) - 3) : \A j \in i..(i + 3) : segment[j] \in Digits
    \/ \E m \in MonthAbbreviations : contains(segment, m)

\* the segments of the header of the first job of the section
HeaderSegments == StripAll(split(From(strip(SectionLines[1]), 4), "|"))

\* the dates the header gives: the fourth segment if present, else the third
\* if it is date-like
HeaderDates ==
    IF Len(HeaderSegments) >= 4 THEN HeaderSegments[4]
    ELSE IF Len(HeaderSegments) >= 3 /\ DateLike(HeaderSegments[3]) THEN HeaderSegments[3]
    ELSE <<>>

\* C23: in a job header split on "|", the third segment becomes dates if it
\* contains a 4-digit year or a month name/abbreviation and becomes location
\* otherwise; when a fourth segment is present it is always the dates, replacing
\* any dates taken from the third segment; headers with fewer segments leave
\* the remaining fields empty and invent no value.
C23_JobHeaderSegments ==
    pc = "done" =>
        LET job == data.experience[1]
            segs == HeaderSegments
        IN  /\ Len(data.experience) = 1
            /\ job.title = segs[1]
            /\ job.company = (IF Len(segs) >= 2 THEN segs[2] ELSE <<>>)
            /\ job.location =
                   (IF Len(segs) >= 3 /\ ~DateLike(segs[3]) THEN segs[3] ELSE <<>>)
            /\ HeaderDates # <<>> => job.dates = HeaderDates
            /\ (HeaderDates = <<>> /\ Len(SectionLines) = 2) => job.dates = <<>>
            /\ job.description = <<>>
            /\ job.achievements = <<>>

\* a header of four segments whose third is date-like: the fourth replaced it
\* as the dates, and the location stayed empty
C23_Witness ==
    /\ pc = "done"
    /\ HeaderSegments = <<<<"E", "n", "g", "i", "n", "e", "e", "r">>, SegmentAcme, SegmentMonths, SegmentReno>>
    /\ data.experience[1].dates = SegmentReno
    /\ data.experience[1].location = <<>>

\* line starts with a bold span: "**", then a closing "**"
IsDegreeLine(line) ==
    startswith(strip(line), Bold) /\ contains(From(strip(line), 2), Bold)

\* the positions in lines of the degree lines, in source order
DegreeLines(lines) ==
    SelectSeq([i \in 1..Len(lines) |-> i], LAMBDA i : IsDegreeLine(lines[i]))

\* the detail lines of lines between positions from and to, stripped
DetailsBetween(lines, from, to) ==
    LET at == SelectSeq([i \in 1..Len(lines) |-> i],
                        LAMBDA i : i > from /\ i < to /\ strip(lines[i]) # <<>>)
    IN  [d \in 1..Len(at) |-> strip(lines[at[d]])]

\* C22: each degree line (a line starting with a bold span) produces exactly
\* one entry: the education list has as many entries as there are degree lines,
\* in source order, no entry appears in the list more than once, and each
\* detail line belongs to the entry of the nearest preceding degree line.
C22_OneEntryPerDegreeLine ==
    pc = "done" =>
        LET lines == SectionLines
            degrees == DegreeLines(lines)
            until(k) == IF k < Len(degrees) THEN degrees[k + 1] ELSE Len(lines) + 1
        IN  /\ Len(data.education) = Len(degrees)
            /\ \A k \in 1..Len(degrees) :
                   /\ DegreeMatch(strip(lines[degrees[k]])) # <<>>
                   /\ data.education[k].degree =
                          strip(DegreeMatch(strip(lines[degrees[k]]))[1])
                   /\ data.education[k].details =
                          DetailsBetween(lines, degrees[k], until(k))

\* the headings of the text, in source order, whose section handler h handles
SectionsFor(h) == {k \in 1..Len(HeadingLines) : HandlerOf(SectionOfHeading(k)[1]) = h}

\* the typed field handler h fills
TypedField(d, h) ==
    CASE h = 1 -> d.summary
      [] h = 2 -> d.skills
      [] h = 3 -> d.experience
      [] h = 4 -> d.education
      [] h = 5 -> d.certifications

\* C29: when two or more sections of the source classify to the same typed
\* category, the parsed field holds only the result of the last such section
\* in source order; the content of the earlier ones is discarded and is not
\* placed in the other-sections store.
C29_LastSectionWins ==
    pc = "done" =>
        /\ \A h \in 1..5 :
               SectionsFor(h) # {} =>
                   LET last == SectionOfHeading(Max(SectionsFor(h)))
                   IN  TypedField(data, h) =
                           TypedField(HandledBy(h, data, last[1], last[2]), h)
        /\ \A e \in 1..Len(data.raw_sections) : HandlerOf(data.raw_sections[e][1]) = 6

\* the position after the last block of the section whose header is block i of
\* doc: that of the next section header or of the next block of another part of
\* the document, or the end of the document
SectionEnd(doc, i) ==
    LET later == {j \in (i + 1)..Len(doc) :
                      doc[j].kind = "section_header" \/ doc[j].section # doc[i].section}
    IN  IF later = {} THEN Len(doc) + 1 ELSE Min(later)

\* the section whose header is block i of doc ends with a spacer paragraph
EndsWithSpacer(doc, i) ==
    LET last == SectionEnd(doc, i) - 1
    IN  /\ last > i
        /\ doc[last].kind = "spacing"
        /\ doc[last].runs = <<>>
        /\ doc[last].section = doc[i].section

\* C25: in the rendered block sequence, every major section that is rendered
\* (summary, skills, experience, education, certifications, and each other
\* section) is followed by a spacer paragraph before the next section's header
\* or the end of the document.
C25_SpacerAfterEverySection ==
    \A r \in 1..Len(returned) :
        \A i \in 1..Len(returned[r].document) :
            returned[r].document[i].kind = "section_header" =>
                EndsWithSpacer(returned[r].document, i)

(***************************************************************************)
(* Further properties of the validator                                     *)
(***************************************************************************)

\* C27: for every artifact, the Length check never returns the info-severity
\* "too short" failure: because the page estimate is max(1, n div 30) it is
\* always at least 1, so that outcome is unreachable.
C27_NeverTooShort ==
    Validated =>
        \A i \in 1..Len(report[1].results) :
            LET r == report[1].results[i]
            IN  r.check_name = "Length" => ~(~r.passed /\ r.severity = "info")

\* a document with no paragraph that holds text was validated, and its length
\* passed
C27_Witness ==
    /\ Validated
    /\ Readable
    /\ Count(docx.paragraphs, HasText) = 0
    /\ Named(report[1].results, "Length") = <<ValidationResult("Length", TRUE, "info")>>

\* C28: every result returned by validate has severity in {critical, warning,
\* info}, and every result with passed = true has severity info; the default
\* severity "error" never appears in a validate result.
C28_SeveritiesOfResults ==
    Validated =>
        \A i \in 1..Len(report[1].results) :
            LET r == report[1].results[i]
            IN  /\ r.severity \in {"critical", "warning", "info"}
                /\ r.passed => r.severity = "info"
                /\ r.severity # "error"

\* validate returned a failure of each severity and a result that passed
C28_Witness ==
    /\ Validated
    /\ \A severity \in {"critical", "warning", "info"} :
           \E i \in 1..Len(report[1].results) :
               ~report[1].results[i].passed /\ report[1].results[i].severity = severity
    /\ \E i \in 1..Len(report[1].results) : report[1].results[i].passed

\* the lines of the report that show a result
ResultLinesOf(lines) == SelectSeq(lines, LAMBDA l : l.kind = "result")

\* the results of bucket b of the report, in their original order: 1 failed
\* critical, 2 failed warning, 3 failed info, 4 passed
Bucket(results, b) ==
    SelectSeq(results,
              LAMBDA r : CASE b = 1 -> ~r.passed /\ r.severity = "critical"
                           [] b = 2 -> ~r.passed /\ r.severity = "warning"
                           [] b = 3 -> ~r.passed /\ r.severity = "info"
                           [] b = 4 -> r.passed)

\* C26: generate_report lists every result produced by validate exactly once,
\* in the bucket order failed-critical, failed-warning, failed-info, passed,
\* keeping the results' original relative order inside each bucket.
C26_ReportListsEveryResult ==
    report_lines # <<>> =>
        LET results == report[1].results
            listed == ResultLinesOf(report_lines)
            ordered == Bucket(results, 1) \o Bucket(results, 2) \o Bucket(results, 3)
                           \o Bucket(results, 4)
        IN  /\ Len(listed) = Len(results)
            /\ \A i \in 1..Len(results) :
                   Cardinality({k \in 1..Len(listed) :
                                    listed[k].check_name = results[i].check_name}) = 1
            /\ [k \in 1..Len(listed) |-> listed[k].check_name]
                   = [k \in 1..Len(ordered) |-> ordered[k].check_name]

\* the report of a validation with a failure in each bucket and results that
\* passed was generated
C26_Witness ==
    /\ report_lines # <<>>
    /\ \A b \in 1..4 : Bucket(report[1].results, b) # <<>>
    /\ Len(Bucket(report[1].results, 4)) >= 2

(***************************************************************************)
(* Properties of the exporter                                              *)
(***************************************************************************)

\* the parser was created: the file at markdown_path was read
ParsingCompleted == _read_file(fsExists, fsText).exc = ""

\* the builder was created and build returned
BuildingCompleted ==
    /\ ParsingCompleted
    /\ TemplateOf(template_path).opens
    /\ _load_styles(stylesFile) # None
    /\ BuildBlocks(_load_styles(stylesFile), parse(split(fsText, NL)), "header", 0,
                   TemplateOf(template_path).paragraphs).exc = ""

\* save returned
SavingCompleted == BuildingCompleted /\ save_exc = ""

\* validate returned a critical failure
CriticalValidationFailure ==
    /\ report # <<>>
    /\ \E i \in 1..Len(report[1].results) : IsCriticalFailure(report[1].results[i])

\* C30: export lets no exception through and returns success = true exactly when
\* parsing, building and saving all completed; with validate = true and a
\* critical validation failure success stays true and errors is not empty; when
\* parsing, building or saving failed, success is false, errors holds exactly
\* one message and validation is None
C30_ExportResults ==
    xpc # "idle" =>
        /\ xpc = "returned"
        /\ export_results # <<>>
        /\ export_results[1].success <=> SavingCompleted
        /\ (validate_arg /\ CriticalValidationFailure) =>
               /\ export_results[1].success
               /\ export_results[1].errors # <<>>
        /\ ~SavingCompleted =>
               /\ ~export_results[1].success
               /\ Len(export_results[1].errors) = 1
               /\ export_results[1].validation = <<>>

\* export has returned after a validation that found a critical failure
C30_Witness ==
    /\ xpc = "returned"
    /\ validate_arg
    /\ CriticalValidationFailure
    /\ export_results[1].success
    /\ Len(export_results[1].errors) >= 1

====
